---- MODULE Spec2Model ----
(***************************************************************************)
(* A model of vtrie's core (src/src/trie.c): the trie store with its       *)
(* first-child / next-sibling nodes, the three iterator families and the   *)
(* iterator safety protocol.                                               *)
(*                                                                         *)
(* Pointers.  A node pointer is modelled by a name; the name malloc hands  *)
(* out for a node is the path of characters it was created for (the code   *)
(* only ever compares node pointers for equality, so any injective naming  *)
(* of the live nodes is a faithful one).  The root is the empty path.  All *)
(* links (parent, child, sibling) are stored explicitly and every walk in  *)
(* the model follows those links as the code does.                         *)
(***************************************************************************)
EXTENDS Integers, Sequences, FiniteSets, TLC

(***************************************************************************)
(* Bounds and input sets                                                   *)
(***************************************************************************)
Chars == {"a", "b"}
KeyLens == {0, 1, 2}
Keys == UNION {[1..n -> Chars] : n \in KeyLens}

\* the strings looked up: the keys, and strings longer than any key
MaxStrLen == 3
Strings == UNION {[1..n -> Chars] : n \in 0..MaxStrLen}

MaxVals == 3
Values == 1..MaxVals

MaxStateId == 5
MaxHd == 2

(***************************************************************************)
(* Program constants                                                       *)
(***************************************************************************)
NULL == <<"NULL">>          \* the null node / key pointer
NoValue == 0                \* the null value pointer
ROOT == <<>>                \* the TrieRoot, seen as a TrieNode
NUL == "0"                  \* '\0', the root's ch

E_SUCCESS == 0
E_OUT_OF_SYNC == -1
E_REPLACED == -2

TRIE_EXPLORED == 1

NO_ITER == 0                \* the null TrieIter pointer

SizeofChar == 1             \* sizeof(TRIECHAR)
SizeofNode == 56            \* sizeof(struct TrieNode), LP64
SizeofRoot == 96            \* sizeof(struct TrieRoot), LP64

VARIABLES
    trie,       \* the TrieRoot: nodes (the heap of TrieNodes, root included),
                \* num_nodes, num_items, memsize, state_id, dirty_iter
    iters,      \* the live TrieIter objects, by address
    freed,      \* TRUE once trie_free has run
    kv,         \* history: the key -> value map the calls made so far describe
    handed,     \* history: values handed to the store by trie_set_item
    deallocs,   \* history: how often each value was passed to a deallocator
    returned,   \* history: values removed by trie_del_item without deallocator
    last        \* history: the last call, if it was trieiter_next or
                \* trieiter_free, with what it found and what it returned

vars == <<trie, iters, freed, kv, handed, deallocs, returned, last>>

(***************************************************************************)
(* Small helpers                                                           *)
(***************************************************************************)
Absent == NoValue            \* no value recorded for a key

Min(a, b) == IF a < b THEN a ELSE b

\* the deallocator calls of one operation, added to the history
RECURSIVE CountDeallocs(_, _)
CountDeallocs(d, dl) ==
    IF dl = <<>> THEN d
    ELSE CountDeallocs([d EXCEPT ![Head(dl)] = Min(@ + 1, 2)], Tail(dl))

(***************************************************************************)
(* Nodes                                                                   *)
(***************************************************************************)
trienode_new(key, value, keylen, parent, sibling, child, ch, flags) ==
    [key |-> key, value |-> value, keylen |-> keylen, parent |-> parent,
     sibling |-> sibling, child |-> child, ch |-> ch, flags |-> flags]

\* the address safe_malloc returns for the node created under `parent`
malloc_node(parent, ch) == Append(parent, ch)

trie_new ==
    [nodes |-> [n \in {ROOT} |->
                   trienode_new(NULL, NoValue, 0, NULL, NULL, NULL, NUL, 0)],
     num_nodes |-> 0,
     num_items |-> 0,
     memsize |-> SizeofRoot,
     state_id |-> 0,
     dirty_iter |-> NO_ITER]

\* trieitem_free on the item of node record n: the new record and the values
\* passed to the deallocator
trieitem_free(n, dealloc) ==
    LET call == n.value # NoValue /\ dealloc
        n1 == [n EXCEPT !.key = NULL]
        n2 == IF call THEN [n1 EXCEPT !.value = NoValue] ELSE n1
    IN [node |-> [n2 EXCEPT !.keylen = 0],
        dl |-> IF call THEN <<n.value>> ELSE <<>>]

\* trienode_free: the heap without the node, and the deallocator calls
trienode_free(nodes, node, dealloc) ==
    LET r == trieitem_free(nodes[node], dealloc)
    IN [nodes |-> [x \in DOMAIN nodes \ {node} |-> nodes[x]], dl |-> r.dl]

RECURSIVE get_child_from(_, _, _)
get_child_from(nodes, child, ch) ==
    IF child # NULL /\ nodes[child].ch # ch
    THEN get_child_from(nodes, nodes[child].sibling, ch)
    ELSE child

trienode_get_child(nodes, node, ch) ==
    get_child_from(nodes, nodes[node].child, ch)

RECURSIVE remove_child_scan(_, _, _, _)
remove_child_scan(nodes, child, prev, ch) ==
    IF child # NULL /\ nodes[child].ch # ch
    THEN remove_child_scan(nodes, nodes[child].sibling, child, ch)
    ELSE [child |-> child, prev |-> prev]

trienode_remove_child(nodes, node, ch, dealloc) ==
    LET s == remove_child_scan(nodes, nodes[node].child, NULL, ch)
        child == s.child
        prev == s.prev
    IN IF child # NULL /\ nodes[child].child = NULL
       THEN LET n1 == IF child = nodes[node].child
                      THEN [nodes EXCEPT ![node].child = nodes[child].sibling]
                      ELSE nodes
                n2 == IF prev # NULL
                      THEN [n1 EXCEPT ![prev].sibling = nodes[child].sibling]
                      ELSE n1
            IN trienode_free(n2, child, dealloc)
       ELSE [nodes |-> nodes, dl |-> <<>>]

RECURSIVE get_node_from(_, _, _, _)
get_node_from(nodes, node, key, i) ==
    IF node # NULL /\ i <= Len(key)
    THEN get_node_from(nodes, trienode_get_child(nodes, node, key[i]), key, i + 1)
    ELSE node

trie_get_node(t, key) == get_node_from(t.nodes, ROOT, key, 1)

trie_num_nodes(t) == t.num_nodes
trie_num_items(t) == t.num_items
trie_mem_usage(t) == t.memsize

\* trie_has_key, forgetting the test of item.key
trie_has_key_nokeytest(t, key) == trie_get_node(t, key) # NULL

trie_has_key(t, key) ==
    LET node == trie_get_node(t, key)
    IN node # NULL /\ t.nodes[node].key # NULL

trie_has_node(t, key) == trie_get_node(t, key) # NULL

\* trie_get_item, forgetting the test of item.key
trie_get_item_nokeytest(t, key) == trie_get_node(t, key)

\* the TrieItem returned is &node->item: it is named by its node
trie_get_item(t, key) ==
    LET node == trie_get_node(t, key)
    IN IF node = NULL \/ t.nodes[node].key = NULL THEN NULL ELSE node

RECURSIVE longest_prefix_from(_, _, _, _, _)
longest_prefix_from(nodes, node, key, i, res) ==
    IF node # NULL /\ i <= Len(key)
    THEN LET next == trienode_get_child(nodes, node, key[i])
             res1 == IF next # NULL /\ nodes[next].key # NULL
                     THEN next ELSE res
         IN longest_prefix_from(nodes, next, key, i + 1, res1)
    ELSE res

\* trie_longest_prefix, forgetting the item of the root
trie_longest_prefix_noroot(t, key) ==
    longest_prefix_from(t.nodes, ROOT, key, 1, NULL)

trie_longest_prefix(t, key) ==
    longest_prefix_from(t.nodes, ROOT, key, 1,
                        IF t.nodes[ROOT].key # NULL THEN ROOT ELSE NULL)

(***************************************************************************)
(* trie_set_item                                                           *)
(***************************************************************************)
RECURSIVE set_walk(_, _, _, _)
set_walk(t, node, key, i) ==
    IF i > Len(key) THEN [trie |-> t, node |-> node]
    ELSE LET ch == key[i]
             child == trienode_get_child(t.nodes, node, ch)
         IN IF child = NULL
            THEN LET new == malloc_node(node, ch)
                     rec == trienode_new(NULL, NoValue, 0, node,
                                         t.nodes[node].child, NULL, ch, 0)
                     nodes1 == [x \in DOMAIN t.nodes \cup {new} |->
                                   IF x = new THEN rec
                                   ELSE IF x = node
                                        THEN [t.nodes[x] EXCEPT !.child = new]
                                        ELSE t.nodes[x]]
                     t1 == [t EXCEPT !.nodes = nodes1,
                                     !.num_nodes = @ + 1,
                                     !.memsize = @ + SizeofNode]
                 IN set_walk(t1, new, key, i + 1)
            ELSE set_walk(t, child, key, i + 1)

\* trie_set_item, counting an overwrite as a new item
trie_set_item_countall(t, key, value, dealloc) ==
    LET w == set_walk(t, ROOT, key, 1)
        node == w.node
        old == w.trie.nodes[node]
        isnew == old.key = NULL
        fr == IF isnew THEN [node |-> old, dl |-> <<>>]
              ELSE trieitem_free(old, dealloc)
        t1 == IF isnew
              THEN [w.trie EXCEPT !.num_items = @ + 1, !.state_id = @ + 1]
              ELSE [w.trie EXCEPT
                       !.num_items = @ + 1,
                       !.memsize = @ - SizeofChar * (old.keylen + 1)]
        keylen == Len(key)
        rec == [fr.node EXCEPT !.key = key, !.keylen = keylen, !.value = value]
    IN [trie |-> [t1 EXCEPT !.nodes[node] = rec,
                            !.memsize = @ + SizeofChar * (keylen + 1)],
        ret |-> 0,
        dl |-> fr.dl]

\* trie_set_item, bumping state_id only when a node was allocated
trie_set_item_nodesonly(t, key, value, dealloc) ==
    LET w == set_walk(t, ROOT, key, 1)
        node == w.node
        old == w.trie.nodes[node]
        isnew == old.key = NULL
        fr == IF isnew THEN [node |-> old, dl |-> <<>>]
              ELSE trieitem_free(old, dealloc)
        t1 == IF isnew
              THEN [w.trie EXCEPT
                       !.num_items = @ + 1,
                       !.state_id = IF w.trie.num_nodes # t.num_nodes
                                    THEN @ + 1 ELSE @]
              ELSE [w.trie EXCEPT
                       !.memsize = @ - SizeofChar * (old.keylen + 1)]
        keylen == Len(key)
        rec == [fr.node EXCEPT !.key = key, !.keylen = keylen, !.value = value]
    IN [trie |-> [t1 EXCEPT !.nodes[node] = rec,
                            !.memsize = @ + SizeofChar * (keylen + 1)],
        ret |-> 0,
        dl |-> fr.dl]

\* trie_set_item, counting the terminating NUL in keylen
trie_set_item_keylennul(t, key, value, dealloc) ==
    LET w == set_walk(t, ROOT, key, 1)
        node == w.node
        old == w.trie.nodes[node]
        isnew == old.key = NULL
        fr == IF isnew THEN [node |-> old, dl |-> <<>>]
              ELSE trieitem_free(old, dealloc)
        t1 == IF isnew
              THEN [w.trie EXCEPT !.num_items = @ + 1, !.state_id = @ + 1]
              ELSE [w.trie EXCEPT
                       !.memsize = @ - SizeofChar * (old.keylen + 1)]
        keylen == Len(key) + 1
        rec == [fr.node EXCEPT !.key = key, !.keylen = keylen, !.value = value]
    IN [trie |-> [t1 EXCEPT !.nodes[node] = rec,
                            !.memsize = @ + SizeofChar * (keylen + 1)],
        ret |-> 0,
        dl |-> fr.dl]

\* trie_set_item, never bumping state_id
trie_set_item_nobump(t, key, value, dealloc) ==
    LET w == set_walk(t, ROOT, key, 1)
        node == w.node
        old == w.trie.nodes[node]
        isnew == old.key = NULL
        fr == IF isnew THEN [node |-> old, dl |-> <<>>]
              ELSE trieitem_free(old, dealloc)
        t1 == IF isnew
              THEN [w.trie EXCEPT !.num_items = @ + 1]
              ELSE [w.trie EXCEPT
                       !.memsize = @ - SizeofChar * (old.keylen + 1)]
        keylen == Len(key)
        rec == [fr.node EXCEPT !.key = key, !.keylen = keylen, !.value = value]
    IN [trie |-> [t1 EXCEPT !.nodes[node] = rec,
                            !.memsize = @ + SizeofChar * (keylen + 1)],
        ret |-> 0,
        dl |-> fr.dl]

\* trie_set_item, bumping state_id on every call
trie_set_item_bump(t, key, value, dealloc) ==
    LET w == set_walk(t, ROOT, key, 1)
        node == w.node
        old == w.trie.nodes[node]
        isnew == old.key = NULL
        fr == IF isnew THEN [node |-> old, dl |-> <<>>]
              ELSE trieitem_free(old, dealloc)
        t1 == IF isnew
              THEN [w.trie EXCEPT !.num_items = @ + 1, !.state_id = @ + 1]
              ELSE [w.trie EXCEPT
                       !.state_id = @ + 1,
                       !.memsize = @ - SizeofChar * (old.keylen + 1)]
        keylen == Len(key)
        rec == [fr.node EXCEPT !.key = key, !.keylen = keylen, !.value = value]
    IN [trie |-> [t1 EXCEPT !.nodes[node] = rec,
                            !.memsize = @ + SizeofChar * (keylen + 1)],
        ret |-> 0,
        dl |-> fr.dl]

\* trie_set_item, counting a node for a new item held at the root
trie_set_item_rootnode(t, key, value, dealloc) ==
    LET w == set_walk(t, ROOT, key, 1)
        node == w.node
        old == w.trie.nodes[node]
        isnew == old.key = NULL
        fr == IF isnew THEN [node |-> old, dl |-> <<>>]
              ELSE trieitem_free(old, dealloc)
        t1 == IF isnew
              THEN [w.trie EXCEPT !.num_items = @ + 1, !.state_id = @ + 1,
                                  !.num_nodes = IF node = ROOT THEN @ + 1
                                                ELSE @]
              ELSE [w.trie EXCEPT
                       !.memsize = @ - SizeofChar * (old.keylen + 1)]
        keylen == Len(key)
        rec == [fr.node EXCEPT !.key = key, !.keylen = keylen, !.value = value]
    IN [trie |-> [t1 EXCEPT !.nodes[node] = rec,
                            !.memsize = @ + SizeofChar * (keylen + 1)],
        ret |-> 0,
        dl |-> fr.dl]

trie_set_item(t, key, value, dealloc) ==
    LET w == set_walk(t, ROOT, key, 1)
        node == w.node
        old == w.trie.nodes[node]
        isnew == old.key = NULL
        fr == IF isnew THEN [node |-> old, dl |-> <<>>]
              ELSE trieitem_free(old, dealloc)
        t1 == IF isnew
              THEN [w.trie EXCEPT !.num_items = @ + 1, !.state_id = @ + 1]
              ELSE [w.trie EXCEPT
                       !.memsize = @ - SizeofChar * (old.keylen + 1)]
        keylen == Len(key)
        rec == [fr.node EXCEPT !.key = key, !.keylen = keylen, !.value = value]
    IN [trie |-> [t1 EXCEPT !.nodes[node] = rec,
                            !.memsize = @ + SizeofChar * (keylen + 1)],
        ret |-> 0,
        dl |-> fr.dl]

(***************************************************************************)
(* trie_del_item                                                           *)
(***************************************************************************)
\* the pruning loop of trie_del_item, not stopping at item-bearing nodes
RECURSIVE del_prune_pastitems(_, _, _, _)
del_prune_pastitems(t, node, dealloc, dl) ==
    IF node # ROOT /\ t.nodes[node].child = NULL
    THEN LET parent == t.nodes[node].parent
             r == trienode_remove_child(t.nodes, parent, t.nodes[node].ch,
                                        dealloc)
             t1 == [t EXCEPT !.nodes = r.nodes,
                             !.memsize = @ - SizeofNode,
                             !.num_nodes = @ - 1]
         IN del_prune_pastitems(t1, parent, dealloc, dl \o r.dl)
    ELSE [trie |-> t, dl |-> dl]

\* the pruning loop of trie_del_item, stopping below the root's children
RECURSIVE del_prune_keepfirst(_, _, _, _)
del_prune_keepfirst(t, node, dealloc, dl) ==
    IF node # ROOT /\ t.nodes[node].parent # ROOT
       /\ t.nodes[node].child = NULL /\ t.nodes[node].key = NULL
    THEN LET parent == t.nodes[node].parent
             r == trienode_remove_child(t.nodes, parent, t.nodes[node].ch,
                                        dealloc)
             t1 == [t EXCEPT !.nodes = r.nodes,
                             !.memsize = @ - SizeofNode,
                             !.num_nodes = @ - 1]
         IN del_prune_keepfirst(t1, parent, dealloc, dl \o r.dl)
    ELSE [trie |-> t, dl |-> dl]

\* the pruning of trie_del_item, removing one node only
del_prune_once(t, node, dealloc, dl) ==
    IF node # ROOT /\ t.nodes[node].child = NULL /\ t.nodes[node].key = NULL
    THEN LET parent == t.nodes[node].parent
             r == trienode_remove_child(t.nodes, parent, t.nodes[node].ch,
                                        dealloc)
             t1 == [t EXCEPT !.nodes = r.nodes,
                             !.memsize = @ - SizeofNode,
                             !.num_nodes = @ - 1]
         IN [trie |-> t1, dl |-> dl \o r.dl]
    ELSE [trie |-> t, dl |-> dl]

\* the pruning loop, not subtracting the freed node from memsize
RECURSIVE del_prune_nomem(_, _, _, _)
del_prune_nomem(t, node, dealloc, dl) ==
    IF node # ROOT /\ t.nodes[node].child = NULL /\ t.nodes[node].key = NULL
    THEN LET parent == t.nodes[node].parent
             r == trienode_remove_child(t.nodes, parent, t.nodes[node].ch,
                                        dealloc)
             t1 == [t EXCEPT !.nodes = r.nodes,
                             !.num_nodes = @ - 1]
         IN del_prune_nomem(t1, parent, dealloc, dl \o r.dl)
    ELSE [trie |-> t, dl |-> dl]

RECURSIVE del_prune(_, _, _, _)
del_prune(t, node, dealloc, dl) ==
    IF node # ROOT /\ t.nodes[node].child = NULL /\ t.nodes[node].key = NULL
    THEN LET parent == t.nodes[node].parent
             r == trienode_remove_child(t.nodes, parent, t.nodes[node].ch,
                                        dealloc)
             t1 == [t EXCEPT !.nodes = r.nodes,
                             !.memsize = @ - SizeofNode,
                             !.num_nodes = @ - 1]
         IN del_prune(t1, parent, dealloc, dl \o r.dl)
    ELSE [trie |-> t, dl |-> dl]

\* trie_del_item, leaving state_id alone
trie_del_item_nobump(t, key, dealloc) ==
    LET node == trie_get_node(t, key)
    IN IF node = NULL \/ t.nodes[node].key = NULL
       THEN [trie |-> t, ret |-> -1, dl |-> <<>>]
       ELSE LET old == t.nodes[node]
                fr == trieitem_free(old, dealloc)
                t1 == [t EXCEPT !.memsize = @ - SizeofChar * (old.keylen + 1),
                                !.nodes[node] = fr.node,
                                !.num_items = @ - 1]
                p == del_prune(t1, node, dealloc, fr.dl)
            IN [trie |-> p.trie, ret |-> 0, dl |-> p.dl]

\* trie_del_item, forgetting the test of item.key
trie_del_item_nokeytest(t, key, dealloc) ==
    LET node == trie_get_node(t, key)
    IN IF node = NULL
       THEN [trie |-> t, ret |-> -1, dl |-> <<>>]
       ELSE LET old == t.nodes[node]
                fr == trieitem_free(old, dealloc)
                t1 == [t EXCEPT !.memsize = @ - SizeofChar * (old.keylen + 1),
                                !.nodes[node] = fr.node,
                                !.num_items = @ - 1]
                p == del_prune(t1, node, dealloc, fr.dl)
            IN [trie |-> [p.trie EXCEPT !.state_id = @ + 1],
                ret |-> 0,
                dl |-> p.dl]

trie_del_item(t, key, dealloc) ==
    LET node == trie_get_node(t, key)
    IN IF node = NULL \/ t.nodes[node].key = NULL
       THEN [trie |-> t, ret |-> -1, dl |-> <<>>]
       ELSE LET old == t.nodes[node]
                fr == trieitem_free(old, dealloc)
                t1 == [t EXCEPT !.memsize = @ - SizeofChar * (old.keylen + 1),
                                !.nodes[node] = fr.node,
                                !.num_items = @ - 1]
                p == del_prune(t1, node, dealloc, fr.dl)
            IN [trie |-> [p.trie EXCEPT !.state_id = @ + 1],
                ret |-> 0,
                dl |-> p.dl]

(***************************************************************************)
(* trie_free                                                               *)
(***************************************************************************)
\* _trie_free: child subtree, then sibling chain, then the node itself
RECURSIVE _trie_free(_, _, _)
_trie_free(nodes, node, dealloc) ==
    IF node = NULL THEN [nodes |-> nodes, dl |-> <<>>]
    ELSE LET c == IF nodes[node].child # NULL
                  THEN _trie_free(nodes, nodes[node].child, dealloc)
                  ELSE [nodes |-> nodes, dl |-> <<>>]
             s == IF nodes[node].sibling # NULL
                  THEN _trie_free(c.nodes, nodes[node].sibling, dealloc)
                  ELSE [nodes |-> c.nodes, dl |-> <<>>]
             f == trienode_free(s.nodes, node, dealloc)
         IN [nodes |-> f.nodes, dl |-> c.dl \o s.dl \o f.dl]

trie_free(t, dealloc) == _trie_free(t.nodes, ROOT, dealloc)


(***************************************************************************)
(* Iterators: the state stack                                              *)
(***************************************************************************)
NoIter == [kind |-> "none"]
IterIds == {1, 2}           \* the addresses malloc hands out for TrieIters

\* a TrieSearchResult; NullResult stands for the NULL return of trieiter_next
NullResult == [query |-> NULL, target |-> NULL, hd |-> -1]
triesearchresult_new(query, target, hd) ==
    [query |-> query, target |-> target, hd |-> hd]

trieiterstate_init(node, query, hd, depth) ==
    [node |-> node, query |-> query, hd |-> hd, depth |-> depth]

\* trieiter_push_state, storing the new state at the far end from the one
\* trieiter_pop_state takes
trieiter_push_state_front(it, node, query, hd, depth) ==
    [it EXCEPT !.cap = IF Len(it.states) = it.cap THEN 2 * it.cap ELSE it.cap,
               !.states = <<trieiterstate_init(node, query, hd, depth)>> \o @]

\* `states` holds the slots head .. fill-1, `cap` is tail - head
trieiter_push_state(it, node, query, hd, depth) ==
    [it EXCEPT !.cap = IF Len(it.states) = it.cap THEN 2 * it.cap ELSE it.cap,
               !.states = Append(@, trieiterstate_init(node, query, hd, depth))]

\* the iterator after the pop; the popped slot is it.states[Len(it.states)]
trieiter_pop_state(it) ==
    [it EXCEPT !.states = SubSeq(@, 1, Len(@) - 1)]

\* the byte *(key + i) of a NUL-terminated key
key_at(key, i) == IF i < Len(key) THEN key[i + 1] ELSE NUL

HasFlag(flags, bit) == (flags \div bit) % 2 = 1
SetFlag(flags, bit) == IF HasFlag(flags, bit) THEN flags ELSE flags + bit

\* trie_reset, not following the sibling links
RECURSIVE trie_reset_nosibling(_, _)
trie_reset_nosibling(nodes, node) ==
    IF node = NULL THEN nodes
    ELSE LET c == IF nodes[node].child # NULL
                  THEN trie_reset_nosibling(nodes, nodes[node].child)
                  ELSE nodes
         IN [c EXCEPT ![node].flags = 0]

RECURSIVE trie_reset(_, _)
trie_reset(nodes, node) ==
    IF node = NULL THEN nodes
    ELSE LET c == IF nodes[node].child # NULL
                  THEN trie_reset(nodes, nodes[node].child) ELSE nodes
             s == IF nodes[node].sibling # NULL
                  THEN trie_reset(c, nodes[node].sibling) ELSE c
         IN [s EXCEPT ![node].flags = 0]

\* trieiter_new, forgetting the test of its arguments
trieiter_new_nocheck(t, id, num_states, maxhd, target_depth, len_query, stack, next, is_dirty) ==
    [it |-> [kind |-> next,
             states |-> <<>>,
             cap |-> num_states,
             maxhd |-> maxhd,
             target_depth |-> target_depth,
             len_query |-> len_query,
             is_dirty |-> is_dirty,
             trie_state_id |-> t.state_id,
             errcode |-> E_SUCCESS,
             stack |-> stack,
             qkey |-> NULL,
             out |-> <<>>,
             mut |-> "none",
             phase |-> "fresh"],
     trie |-> IF is_dirty
              THEN [t EXCEPT
                      !.nodes = IF t.dirty_iter # NO_ITER
                                THEN trie_reset(t.nodes, ROOT)
                                ELSE t.nodes,
                      !.dirty_iter = id]
              ELSE t]

\* trieiter_new, taking the dirty slot over without resetting the flags
trieiter_new_noreset(t, id, num_states, maxhd, target_depth, len_query, stack, next, is_dirty) ==
    IF num_states < 1 \/ maxhd < 0 \/ target_depth < 0
    THEN [it |-> NoIter, trie |-> t]
    ELSE [it |-> [kind |-> next,
                  states |-> <<>>,
                  cap |-> num_states,
                  maxhd |-> maxhd,
                  target_depth |-> target_depth,
                  len_query |-> len_query,
                  is_dirty |-> is_dirty,
                  trie_state_id |-> t.state_id,
                  errcode |-> E_SUCCESS,
                  stack |-> stack,
                  qkey |-> NULL,
                  out |-> <<>>,
                  mut |-> "none",
                  phase |-> "fresh"],
          trie |-> IF is_dirty THEN [t EXCEPT !.dirty_iter = id] ELSE t]

\* trieiter_new for the iterator allocated at address `id`; `it` is NoIter
\* when the factory returns NULL.  The history fields start empty.
trieiter_new(t, id, num_states, maxhd, target_depth, len_query, stack, next, is_dirty) ==
    IF num_states < 1 \/ maxhd < 0 \/ target_depth < 0
    THEN [it |-> NoIter, trie |-> t]
    ELSE [it |-> [kind |-> next,
                  states |-> <<>>,
                  cap |-> num_states,
                  maxhd |-> maxhd,
                  target_depth |-> target_depth,
                  len_query |-> len_query,
                  is_dirty |-> is_dirty,
                  trie_state_id |-> t.state_id,
                  errcode |-> E_SUCCESS,
                  stack |-> stack,
                  qkey |-> NULL,
                  out |-> <<>>,
                  mut |-> "none",
                  phase |-> "fresh"],
          trie |-> IF is_dirty
                   THEN [t EXCEPT
                           !.nodes = IF t.dirty_iter # NO_ITER
                                     THEN trie_reset(t.nodes, ROOT)
                                     ELSE t.nodes,
                           !.dirty_iter = id]
                   ELSE t]

(***************************************************************************)
(* Suffix iterator                                                         *)
(***************************************************************************)
RECURSIVE suffixes_push_children(_, _, _, _, _)
suffixes_push_children(it, nodes, child, query, depth) ==
    IF child = NULL THEN it
    ELSE suffixes_push_children(
             trieiter_push_state(it, child, query, 0, depth + 1),
             nodes, nodes[child].sibling, query, depth)

\* trieiter_suffixes_next, returning a result before the children are pushed
RECURSIVE trieiter_suffixes_next_early(_, _)
trieiter_suffixes_next_early(it, t) ==
    IF it.states = <<>>
    THEN [it |-> it, trie |-> t, result |-> NullResult]
    ELSE LET state == it.states[Len(it.states)]
             it1 == trieiter_pop_state(it)
             result == IF t.nodes[state.node].key # NULL
                       THEN triesearchresult_new(state.query, state.node, 0)
                       ELSE NullResult
             it2 == suffixes_push_children(it1, t.nodes,
                        t.nodes[state.node].child, state.query, state.depth)
         IN IF result # NullResult
            THEN [it |-> it1, trie |-> t, result |-> result]
            ELSE trieiter_suffixes_next_early(it2, t)

RECURSIVE trieiter_suffixes_next(_, _)
trieiter_suffixes_next(it, t) ==
    IF it.states = <<>>
    THEN [it |-> it, trie |-> t, result |-> NullResult]
    ELSE LET state == it.states[Len(it.states)]
             it1 == trieiter_pop_state(it)
             result == IF t.nodes[state.node].key # NULL
                       THEN triesearchresult_new(state.query, state.node, 0)
                       ELSE NullResult
             it2 == suffixes_push_children(it1, t.nodes,
                        t.nodes[state.node].child, state.query, state.depth)
         IN IF result # NullResult
            THEN [it |-> it2, trie |-> t, result |-> result]
            ELSE trieiter_suffixes_next(it2, t)

trieiter_suffixes(t, id, key) ==
    LET query == trie_get_node(t, key)
    IN IF query = NULL THEN [it |-> NoIter, trie |-> t]
       ELSE LET r == trieiter_new(t, id, 1, 0, 0, Len(key), <<>>,
                                  "suffixes", FALSE)
            IN IF r.it = NoIter THEN r
               ELSE [r EXCEPT !.it = trieiter_push_state(@, query, query, 0, 0)]

(***************************************************************************)
(* Neighbor iterator                                                       *)
(***************************************************************************)
\* the neighbor expansion, testing hd <= maxhd instead of hd < maxhd
RECURSIVE neighbors_push_children_le(_, _, _, _, _, _)
neighbors_push_children_le(it, nodes, child, query, hd, depth) ==
    IF child = NULL THEN it
    ELSE LET it1 ==
                 IF nodes[child].ch = key_at(nodes[query].key, depth)
                 THEN trieiter_push_state(it, child, query, hd, depth + 1)
                 ELSE IF hd <= it.maxhd
                      THEN trieiter_push_state(it, child, query, hd + 1,
                                               depth + 1)
                      ELSE it
         IN neighbors_push_children_le(it1, nodes, nodes[child].sibling, query,
                                       hd, depth)

\* the neighbor expansion, passing over children flagged EXPLORED
RECURSIVE neighbors_push_children_skip(_, _, _, _, _, _)
neighbors_push_children_skip(it, nodes, child, query, hd, depth) ==
    IF child = NULL THEN it
    ELSE LET it1 ==
                 IF HasFlag(nodes[child].flags, TRIE_EXPLORED) THEN it
                 ELSE IF nodes[child].ch = key_at(nodes[query].key, depth)
                 THEN trieiter_push_state(it, child, query, hd, depth + 1)
                 ELSE IF hd < it.maxhd
                      THEN trieiter_push_state(it, child, query, hd + 1,
                                               depth + 1)
                      ELSE it
         IN neighbors_push_children_skip(it1, nodes, nodes[child].sibling,
                                         query, hd, depth)

RECURSIVE neighbors_push_children(_, _, _, _, _, _)
neighbors_push_children(it, nodes, child, query, hd, depth) ==
    IF child = NULL THEN it
    ELSE LET it1 ==
                 IF nodes[child].ch = key_at(nodes[query].key, depth)
                 THEN trieiter_push_state(it, child, query, hd, depth + 1)
                 ELSE IF hd < it.maxhd
                      THEN trieiter_push_state(it, child, query, hd + 1,
                                               depth + 1)
                      ELSE it
         IN neighbors_push_children(it1, nodes, nodes[child].sibling, query,
                                    hd, depth)

RECURSIVE trieiter_neighbors_next(_, _)
trieiter_neighbors_next(it, t) ==
    IF it.states = <<>>
    THEN [it |-> it, trie |-> t, result |-> NullResult]
    ELSE LET state == it.states[Len(it.states)]
             it1 == trieiter_pop_state(it)
         IN IF state.depth = it.target_depth
            THEN IF t.nodes[state.node].key = NULL \/ state.hd = 0
                 THEN trieiter_neighbors_next(it1, t)
                 ELSE [it |-> it1, trie |-> t,
                       result |-> triesearchresult_new(state.query, state.node,
                                                       state.hd)]
            ELSE trieiter_neighbors_next(
                     neighbors_push_children(it1, t.nodes,
                         t.nodes[state.node].child, state.query, state.hd,
                         state.depth),
                     t)

\* trieiter_neighbors, forgetting the test of the query's item.key
trieiter_neighbors_nokeytest(t, id, key, maxhd) ==
    IF maxhd < 1 THEN [it |-> NoIter, trie |-> t]
    ELSE LET query == trie_get_node(t, key)
         IN IF query = NULL
            THEN [it |-> NoIter, trie |-> t]
            ELSE LET r == trieiter_new(t, id, 1, maxhd,
                                       t.nodes[query].keylen,
                                       t.nodes[query].keylen, <<>>,
                                       "neighbors", FALSE)
                 IN IF r.it = NoIter THEN r
                    ELSE [r EXCEPT
                            !.it = trieiter_push_state(@, ROOT, query, 0, 0)]

trieiter_neighbors(t, id, key, maxhd) ==
    IF maxhd < 1 THEN [it |-> NoIter, trie |-> t]
    ELSE LET query == trie_get_node(t, key)
         IN IF query = NULL \/ t.nodes[query].key = NULL
            THEN [it |-> NoIter, trie |-> t]
            ELSE LET r == trieiter_new(t, id, 1, maxhd,
                                       t.nodes[query].keylen,
                                       t.nodes[query].keylen, <<>>,
                                       "neighbors", FALSE)
                 IN IF r.it = NoIter THEN r
                    ELSE [r EXCEPT
                            !.it = trieiter_push_state(@, ROOT, query, 0, 0)]

(***************************************************************************)
(* All-pairs Hamming iterator                                              *)
(***************************************************************************)
\* stack_push, adding at the far end
stack_push_fifo(stack, value) == Append(stack, value)

\* stack_push prepends: the head of the sequence is the top of the stack
stack_push(stack, value) == <<value>> \o stack

RECURSIVE trie_find_all_strings(_, _, _, _)
RECURSIVE find_all_strings_children(_, _, _, _)
find_all_strings_children(nodes, child, depth, targets) ==
    IF child = NULL THEN targets
    ELSE find_all_strings_children(nodes, nodes[child].sibling, depth,
             trie_find_all_strings(nodes, child, depth - 1, targets))

trie_find_all_strings(nodes, node, depth, targets) ==
    IF depth = 0 /\ nodes[node].key # NULL THEN stack_push(targets, node)
    ELSE IF depth > 0
         THEN find_all_strings_children(nodes, nodes[node].child, depth,
                                        targets)
         ELSE targets

\* the all-pairs expansion, counting EXPLORED children without skipping them
RECURSIVE hammingpairs_push_children_noskip(_, _, _, _, _, _, _, _)
hammingpairs_push_children_noskip(it, nodes, child, query, hd, depth, n_children, n_explored) ==
    IF child = NULL
    THEN [it |-> it, n_children |-> n_children, n_explored |-> n_explored]
    ELSE LET it1 ==
                 IF nodes[child].ch = key_at(nodes[query].key, depth)
                 THEN trieiter_push_state(it, child, query, hd, depth + 1)
                 ELSE IF hd < it.maxhd
                      THEN trieiter_push_state(it, child, query, hd + 1,
                                               depth + 1)
                      ELSE it
         IN hammingpairs_push_children_noskip(it1, nodes, nodes[child].sibling,
                query, hd, depth, n_children + 1,
                IF HasFlag(nodes[child].flags, TRIE_EXPLORED)
                THEN n_explored + 1 ELSE n_explored)

\* the all-pairs expansion, counting every child as explored
RECURSIVE hammingpairs_push_children_countall(_, _, _, _, _, _, _, _)
hammingpairs_push_children_countall(it, nodes, child, query, hd, depth, n_children, n_explored) ==
    IF child = NULL
    THEN [it |-> it, n_children |-> n_children, n_explored |-> n_explored]
    ELSE IF HasFlag(nodes[child].flags, TRIE_EXPLORED)
         THEN hammingpairs_push_children_countall(it, nodes,
                  nodes[child].sibling, query, hd, depth, n_children + 1,
                  n_explored + 1)
         ELSE LET it1 ==
                      IF nodes[child].ch = key_at(nodes[query].key, depth)
                      THEN trieiter_push_state(it, child, query, hd, depth + 1)
                      ELSE IF hd < it.maxhd
                           THEN trieiter_push_state(it, child, query, hd + 1,
                                                    depth + 1)
                           ELSE it
              IN hammingpairs_push_children_countall(it1, nodes,
                     nodes[child].sibling, query, hd, depth, n_children + 1,
                     n_explored + 1)

\* the all-pairs expansion, following a mismatching child while hd <= maxhd
RECURSIVE hammingpairs_push_children_le(_, _, _, _, _, _, _, _)
hammingpairs_push_children_le(it, nodes, child, query, hd, depth, n_children, n_explored) ==
    IF child = NULL
    THEN [it |-> it, n_children |-> n_children, n_explored |-> n_explored]
    ELSE IF HasFlag(nodes[child].flags, TRIE_EXPLORED)
         THEN hammingpairs_push_children_le(it, nodes, nodes[child].sibling,
                  query, hd, depth, n_children + 1, n_explored + 1)
         ELSE LET it1 ==
                      IF nodes[child].ch = key_at(nodes[query].key, depth)
                      THEN trieiter_push_state(it, child, query, hd, depth + 1)
                      ELSE IF hd <= it.maxhd
                           THEN trieiter_push_state(it, child, query, hd + 1,
                                                    depth + 1)
                           ELSE it
              IN hammingpairs_push_children_le(it1, nodes,
                     nodes[child].sibling, query, hd, depth, n_children + 1,
                     n_explored)

\* the for loop over the children of a popped state: pushes, and the counts
RECURSIVE hammingpairs_push_children(_, _, _, _, _, _, _, _)
hammingpairs_push_children(it, nodes, child, query, hd, depth, n_children, n_explored) ==
    IF child = NULL
    THEN [it |-> it, n_children |-> n_children, n_explored |-> n_explored]
    ELSE IF HasFlag(nodes[child].flags, TRIE_EXPLORED)
         THEN hammingpairs_push_children(it, nodes, nodes[child].sibling,
                  query, hd, depth, n_children + 1, n_explored + 1)
         ELSE LET it1 ==
                      IF nodes[child].ch = key_at(nodes[query].key, depth)
                      THEN trieiter_push_state(it, child, query, hd, depth + 1)
                      ELSE IF hd < it.maxhd
                           THEN trieiter_push_state(it, child, query, hd + 1,
                                                    depth + 1)
                           ELSE it
              IN hammingpairs_push_children(it1, nodes, nodes[child].sibling,
                     query, hd, depth, n_children + 1, n_explored)

RECURSIVE trieiter_hammingpairs_next(_, _)
trieiter_hammingpairs_next(it, t) ==
    IF it.states = <<>> /\ it.stack = <<>>
    THEN [it |-> it, trie |-> t, result |-> NullResult]
    ELSE IF it.states = <<>>
    THEN \* get next query string
         LET query == Head(it.stack)
             it1 == [it EXCEPT !.stack = Tail(@)]
             t1 == [t EXCEPT !.nodes[query].flags = SetFlag(@, TRIE_EXPLORED)]
         IN trieiter_hammingpairs_next(
                trieiter_push_state(it1, ROOT, query, 0, 0), t1)
    ELSE LET state == it.states[Len(it.states)]
             it1 == trieiter_pop_state(it)
         IN IF state.depth = it.target_depth
            THEN IF t.nodes[state.node].key = NULL
                 THEN trieiter_hammingpairs_next(it1,
                          [t EXCEPT !.nodes[state.node].flags =
                                        SetFlag(@, TRIE_EXPLORED)])
                 ELSE [it |-> it1, trie |-> t,
                       result |-> triesearchresult_new(state.query, state.node,
                                                       state.hd)]
            ELSE LET p == hammingpairs_push_children(it1, t.nodes,
                              t.nodes[state.node].child, state.query, state.hd,
                              state.depth, 0, 0)
                     t1 == IF p.n_children = p.n_explored
                           THEN [t EXCEPT !.nodes[state.node].flags =
                                              SetFlag(@, TRIE_EXPLORED)]
                           ELSE t
                 IN trieiter_hammingpairs_next(p.it, t1)

trieiter_hammingpairs(t, id, keylen, maxhd) ==
    IF keylen <= 0 THEN [it |-> NoIter, trie |-> t]
    ELSE trieiter_new(t, id, 1, maxhd, keylen, keylen,
                      trie_find_all_strings(t.nodes, ROOT, keylen, <<>>),
                      "hammingpairs", TRUE)

(***************************************************************************)
(* trieiter_next, trieiter_errcode, trieiter_len_query, trieiter_free      *)
(***************************************************************************)
\* trieiter_next, taking an empty dirty slot for its own
trieiter_next_emptyslot(t, id, it) ==
    IF it.trie_state_id # t.state_id
    THEN [it |-> [it EXCEPT !.errcode = E_OUT_OF_SYNC], trie |-> t,
          result |-> NullResult]
    ELSE IF it.is_dirty /\ t.dirty_iter # id /\ t.dirty_iter # NO_ITER
    THEN [it |-> [it EXCEPT !.errcode = E_REPLACED], trie |-> t,
          result |-> NullResult]
    ELSE IF it.kind = "suffixes" THEN trieiter_suffixes_next(it, t)
    ELSE IF it.kind = "neighbors" THEN trieiter_neighbors_next(it, t)
    ELSE trieiter_hammingpairs_next(it, t)

\* trieiter_next, emptying the dirty slot when it reports a replacement
trieiter_next_dropslot(t, id, it) ==
    IF it.trie_state_id # t.state_id
    THEN [it |-> [it EXCEPT !.errcode = E_OUT_OF_SYNC], trie |-> t,
          result |-> NullResult]
    ELSE IF it.is_dirty /\ t.dirty_iter # id
    THEN [it |-> [it EXCEPT !.errcode = E_REPLACED],
          trie |-> [t EXCEPT !.dirty_iter = NO_ITER],
          result |-> NullResult]
    ELSE IF it.kind = "suffixes" THEN trieiter_suffixes_next(it, t)
    ELSE IF it.kind = "neighbors" THEN trieiter_neighbors_next(it, t)
    ELSE trieiter_hammingpairs_next(it, t)

\* trieiter_next, testing for replacement before synchronisation
trieiter_next_replacedfirst(t, id, it) ==
    IF it.is_dirty /\ t.dirty_iter # id
    THEN [it |-> [it EXCEPT !.errcode = E_REPLACED], trie |-> t,
          result |-> NullResult]
    ELSE IF it.trie_state_id # t.state_id
    THEN [it |-> [it EXCEPT !.errcode = E_OUT_OF_SYNC], trie |-> t,
          result |-> NullResult]
    ELSE IF it.kind = "suffixes" THEN trieiter_suffixes_next(it, t)
    ELSE IF it.kind = "neighbors" THEN trieiter_neighbors_next(it, t)
    ELSE trieiter_hammingpairs_next(it, t)

\* trieiter_next, reporting OUT_OF_SYNC when the enumeration has no more
\* results
trieiter_next_enderror(t, id, it) ==
    IF it.trie_state_id # t.state_id
    THEN [it |-> [it EXCEPT !.errcode = E_OUT_OF_SYNC], trie |-> t,
          result |-> NullResult]
    ELSE IF it.is_dirty /\ t.dirty_iter # id
    THEN [it |-> [it EXCEPT !.errcode = E_REPLACED], trie |-> t,
          result |-> NullResult]
    ELSE LET r == IF it.kind = "suffixes" THEN trieiter_suffixes_next(it, t)
                  ELSE IF it.kind = "neighbors"
                       THEN trieiter_neighbors_next(it, t)
                       ELSE trieiter_hammingpairs_next(it, t)
         IN IF r.result = NullResult
            THEN [r EXCEPT !.it.errcode = E_OUT_OF_SYNC]
            ELSE r

trieiter_next(t, id, it) ==
    IF it.trie_state_id # t.state_id
    THEN [it |-> [it EXCEPT !.errcode = E_OUT_OF_SYNC], trie |-> t,
          result |-> NullResult]
    ELSE IF it.is_dirty /\ t.dirty_iter # id
    THEN [it |-> [it EXCEPT !.errcode = E_REPLACED], trie |-> t,
          result |-> NullResult]
    ELSE IF it.kind = "suffixes" THEN trieiter_suffixes_next(it, t)
    ELSE IF it.kind = "neighbors" THEN trieiter_neighbors_next(it, t)
    ELSE trieiter_hammingpairs_next(it, t)

trieiter_errcode(it) == it.errcode
trieiter_len_query(it) == it.len_query

\* trieiter_free, resetting the store whichever iterator is freed
trieiter_free_any(t, id) ==
    [t EXCEPT !.nodes = trie_reset(t.nodes, ROOT), !.dirty_iter = NO_ITER]

\* trieiter_free, clearing the dirty slot without resetting the flags
trieiter_free_noreset(t, id) ==
    IF id = t.dirty_iter THEN [t EXCEPT !.dirty_iter = NO_ITER] ELSE t

\* the store after trieiter_free of the iterator at address `id`
trieiter_free(t, id) ==
    IF id = t.dirty_iter
    THEN [t EXCEPT !.nodes = trie_reset(t.nodes, ROOT), !.dirty_iter = NO_ITER]
    ELSE t

(***************************************************************************)
(* Initial state: trie_new(), no iterator, empty history                   *)
(***************************************************************************)
NoCall == [op |-> "other", id |-> 0, ret |-> NullResult, latched |-> FALSE,
           active |-> FALSE, dirty |-> FALSE, flagged |-> FALSE]

Init ==
    /\ trie = trie_new
    /\ iters = [i \in IterIds |-> NoIter]
    /\ freed = FALSE
    /\ kv = [k \in Keys |-> Absent]
    /\ handed = {}
    /\ deallocs = [v \in Values |-> 0]
    /\ returned = {}
    /\ last = NoCall

(***************************************************************************)
(* Store actions                                                           *)
(***************************************************************************)
\* history: what a mutating call means to the live iterators.  `structural`
\* says that the call changed the set of stored keys.
NoteMutation(structural) ==
    [i \in IterIds |->
        IF iters[i] = NoIter THEN NoIter
        ELSE [iters[i] EXCEPT !.mut = IF structural \/ @ = "struct"
                                      THEN "struct" ELSE "overwrite"]]

Call_trie_set_item(key, value, dealloc) ==
    /\ ~freed
    /\ LET r == trie_set_item(trie, key, value, dealloc)
       IN /\ r.trie.state_id <= MaxStateId
          /\ trie' = r.trie
          /\ deallocs' = CountDeallocs(deallocs, r.dl)
    /\ iters' = NoteMutation(kv[key] = Absent)
    /\ kv' = [kv EXCEPT ![key] = value]
    /\ handed' = handed \cup {value}
    /\ last' = NoCall
    /\ UNCHANGED <<freed, returned>>

Call_trie_del_item(key, dealloc) ==
    /\ ~freed
    /\ LET r == trie_del_item(trie, key, dealloc)
       IN /\ r.trie.state_id <= MaxStateId
          /\ trie' = r.trie
          /\ deallocs' = CountDeallocs(deallocs, r.dl)
    /\ iters' = IF kv[key] # Absent THEN NoteMutation(TRUE) ELSE iters
    /\ returned' = IF kv[key] # Absent /\ ~dealloc
                   THEN returned \cup {kv[key]} ELSE returned
    /\ kv' = [kv EXCEPT ![key] = Absent]
    /\ last' = NoCall
    /\ UNCHANGED <<freed, handed>>

Call_trie_free(dealloc) ==
    /\ ~freed
    /\ \A i \in IterIds : iters[i] = NoIter
    /\ LET r == trie_free(trie, dealloc)
       IN /\ trie' = [trie EXCEPT !.nodes = r.nodes]
          /\ deallocs' = CountDeallocs(deallocs, r.dl)
    /\ freed' = TRUE
    /\ last' = NoCall
    /\ UNCHANGED <<iters, kv, handed, returned>>

(***************************************************************************)
(* Iterator actions                                                        *)
(***************************************************************************)
\* the factories: a NULL return leaves no iterator at `id`
InstallIter(id, r, key) ==
    /\ trie' = r.trie
    /\ iters' = [iters EXCEPT ![id] = IF r.it = NoIter THEN NoIter
                                      ELSE [r.it EXCEPT !.qkey = key]]
    /\ last' = NoCall
    /\ UNCHANGED <<freed, kv, handed, deallocs, returned>>

Call_trieiter_suffixes(id, key) ==
    /\ ~freed
    /\ iters[id] = NoIter
    /\ InstallIter(id, trieiter_suffixes(trie, id, key), key)

Call_trieiter_neighbors(id, key, maxhd) ==
    /\ ~freed
    /\ iters[id] = NoIter
    /\ InstallIter(id, trieiter_neighbors(trie, id, key, maxhd), key)

Call_trieiter_hammingpairs(id, keylen, maxhd) ==
    /\ ~freed
    /\ iters[id] = NoIter
    /\ InstallIter(id, trieiter_hammingpairs(trie, id, keylen, maxhd), NULL)

Call_trieiter_next(id) ==
    /\ ~freed
    /\ iters[id] # NoIter
    /\ LET it == iters[id]
           r == trieiter_next(trie, id, it)
       IN /\ trie' = r.trie
          /\ iters' = [iters EXCEPT ![id] =
                 [r.it EXCEPT
                    !.out = IF r.result # NullResult
                            THEN Append(@, r.result) ELSE @,
                    !.phase = IF r.result # NullResult THEN "active"
                              ELSE IF r.it.errcode = E_SUCCESS
                                   THEN "exhausted" ELSE @]]
          /\ last' = [NoCall EXCEPT !.op = "next", !.id = id,
                                     !.ret = r.result,
                                     !.latched = it.errcode # E_SUCCESS,
                                     !.active = id = trie.dirty_iter,
                                     !.dirty = it.is_dirty]
    /\ UNCHANGED <<freed, kv, handed, deallocs, returned>>

Call_trieiter_free(id) ==
    /\ ~freed
    /\ iters[id] # NoIter
    /\ trie' = trieiter_free(trie, id)
    /\ iters' = [iters EXCEPT ![id] = NoIter]
    /\ last' = [NoCall EXCEPT !.op = "free", !.id = id,
                               !.latched = iters[id].errcode # E_SUCCESS,
                               !.active = id = trie.dirty_iter,
                               !.dirty = iters[id].is_dirty,
                               !.flagged = \E n \in DOMAIN trie.nodes :
                                              trie.nodes[n].flags # 0]
    /\ UNCHANGED <<freed, kv, handed, deallocs, returned>>

(***************************************************************************)
(* Specifications                                                          *)
(***************************************************************************)
\* the caller hands in a value it has not handed in before
FreshValue == Cardinality(handed) + 1

\* The store alone: set, del and the final trie_free, every value fresh.
NextStore ==
    \/ \E k \in Keys, d \in BOOLEAN :
          FreshValue \in Values /\ Call_trie_set_item(k, FreshValue, d)
    \/ \E k \in Keys, d \in BOOLEAN : Call_trie_del_item(k, d)
    \/ \E d \in BOOLEAN : Call_trie_free(d)

SpecStore == Init /\ [][NextStore]_vars

\* The store and a caller that hands in again a value it got back from
\* trie_del_item with no deallocator, once it holds that value alone.
CallerOwns(v) ==
    /\ v \in returned
    /\ deallocs[v] = 0
    /\ \A k \in Keys : kv[k] # v

NextOwner ==
    \/ \E k \in Keys, v \in Values, d \in BOOLEAN :
          (v = FreshValue \/ CallerOwns(v)) /\ Call_trie_set_item(k, v, d)
    \/ \E k \in Keys, d \in BOOLEAN : Call_trie_del_item(k, d)
    \/ \E d \in BOOLEAN : Call_trie_free(d)

SpecOwner == Init /\ [][NextOwner]_vars

NoLiveIter == \A i \in IterIds : iters[i] = NoIter

\* malloc hands out the lowest free TrieIter address
FreeIterId(id) ==
    /\ iters[id] = NoIter
    /\ \A j \in IterIds : j < id => iters[j] # NoIter

\* Enumeration: the store is built by set/del while no iterator is live; one
\* iterator of any family at a time is created, advanced and freed.
NextEnum ==
    \/ \E k \in Keys : NoLiveIter /\ Call_trie_set_item(k, 1, TRUE)
    \/ \E k \in Keys : NoLiveIter /\ Call_trie_del_item(k, TRUE)
    \/ \E k \in Keys : Call_trieiter_suffixes(1, k)
    \/ \E k \in Keys, h \in 0..MaxHd : Call_trieiter_neighbors(1, k, h)
    \/ \E l \in KeyLens, h \in -1..MaxHd : Call_trieiter_hammingpairs(1, l, h)
    \/ Call_trieiter_next(1)
    \/ Call_trieiter_free(1)

SpecEnum == Init /\ [][NextEnum]_vars

\* Synchronisation: one iterator of any family at a time on a small store
\* that is mutated at any time.
SyncKeys == {<<"a">>, <<"a", "a">>, <<"a", "b">>}

NextSync ==
    \/ \E k \in SyncKeys : Call_trie_set_item(k, 1, TRUE)
    \/ \E k \in SyncKeys : Call_trie_del_item(k, TRUE)
    \/ \E k \in SyncKeys : Call_trieiter_suffixes(1, k)
    \/ \E k \in SyncKeys, h \in 0..MaxHd : Call_trieiter_neighbors(1, k, h)
    \/ \E l \in KeyLens, h \in -1..MaxHd : Call_trieiter_hammingpairs(1, l, h)
    \/ Call_trieiter_next(1)
    \/ Call_trieiter_free(1)

SpecSync == Init /\ [][NextSync]_vars

\* Dirty iteration: up to two iterators, all-pairs ones and a suffix one, live
\* on a store of keys of one length that is mutated while no iterator is live.
DirtyKeys == {k \in Keys : Len(k) = 2}

NextDirty ==
    \/ \E k \in DirtyKeys : NoLiveIter /\ Call_trie_set_item(k, 1, TRUE)
    \/ \E k \in DirtyKeys : NoLiveIter /\ Call_trie_del_item(k, TRUE)
    \/ \E id \in IterIds : FreeIterId(id) /\ Call_trieiter_suffixes(id, <<>>)
    \/ \E id \in IterIds, h \in 1..MaxHd :
          FreeIterId(id) /\ Call_trieiter_hammingpairs(id, 2, h)
    \/ \E id \in IterIds : Call_trieiter_next(id)
    \/ \E id \in IterIds : Call_trieiter_free(id)

SpecDirty == Init /\ [][NextDirty]_vars

\* Latching: up to two iterators, all-pairs ones and a suffix one, live on a
\* two-key store that is mutated at any time.
LatchKeys == {<<"a", "a">>, <<"a", "b">>}

NextLatch ==
    \/ \E k \in LatchKeys : Call_trie_set_item(k, 1, TRUE)
    \/ \E k \in LatchKeys : Call_trie_del_item(k, TRUE)
    \/ \E id \in IterIds : FreeIterId(id) /\ Call_trieiter_suffixes(id, <<>>)
    \/ \E id \in IterIds : FreeIterId(id) /\ Call_trieiter_hammingpairs(id, 2, 1)
    \/ \E id \in IterIds : Call_trieiter_next(id)
    \/ \E id \in IterIds : Call_trieiter_free(id)

SpecLatch == Init /\ [][NextLatch]_vars

\* Overwriting: one iterator of any family at a time on a small store whose
\* keys are set, each time with a fresh value, and deleted at any time.
NextOverwrite ==
    \/ \E k \in SyncKeys :
          FreshValue \in Values /\ Call_trie_set_item(k, FreshValue, TRUE)
    \/ \E k \in SyncKeys : Call_trie_del_item(k, TRUE)
    \/ \E k \in SyncKeys : Call_trieiter_suffixes(1, k)
    \/ \E k \in SyncKeys, h \in 1..MaxHd : Call_trieiter_neighbors(1, k, h)
    \/ \E l \in KeyLens, h \in 0..MaxHd : Call_trieiter_hammingpairs(1, l, h)
    \/ Call_trieiter_next(1)
    \/ Call_trieiter_free(1)

SpecOverwrite == Init /\ [][NextOverwrite]_vars

\* Clean beside dirty: up to two iterators of any family, live on a store of
\* three keys of length two that is mutated while no iterator is live.
CleanKeys == {<<"a", "a">>, <<"a", "b">>, <<"b", "a">>}

CleanPrefixes == {<<>>, <<"a">>}

NextClean ==
    \/ \E k \in CleanKeys : NoLiveIter /\ Call_trie_set_item(k, 1, TRUE)
    \/ \E k \in CleanKeys : NoLiveIter /\ Call_trie_del_item(k, TRUE)
    \/ \E id \in IterIds, k \in CleanPrefixes :
          FreeIterId(id) /\ Call_trieiter_suffixes(id, k)
    \/ \E id \in IterIds, k \in CleanKeys, h \in 1..MaxHd :
          FreeIterId(id) /\ Call_trieiter_neighbors(id, k, h)
    \/ \E id \in IterIds :
          FreeIterId(id) /\ Call_trieiter_hammingpairs(id, 2, 1)
    \/ \E id \in IterIds : Call_trieiter_next(id)
    \/ \E id \in IterIds : Call_trieiter_free(id)

SpecClean == Init /\ [][NextClean]_vars

\* Termination: one iterator of any family at a time on a small store that is
\* mutated at any time; the caller keeps calling trieiter_next and frees the
\* iterator only after it has returned NULL.
CallerDone(id) ==
    /\ iters[id] # NoIter
    /\ last.op = "next"
    /\ last.id = id
    /\ last.ret = NullResult

NextTerm ==
    \/ \E k \in SyncKeys : Call_trie_set_item(k, 1, TRUE)
    \/ \E k \in SyncKeys : Call_trie_del_item(k, TRUE)
    \/ \E k \in SyncKeys : Call_trieiter_suffixes(1, k)
    \/ \E k \in SyncKeys, h \in 1..MaxHd : Call_trieiter_neighbors(1, k, h)
    \/ \E l \in KeyLens, h \in 0..MaxHd : Call_trieiter_hammingpairs(1, l, h)
    \/ Call_trieiter_next(1)
    \/ CallerDone(1) /\ Call_trieiter_free(1)

\* a trieiter_next call on iterator id would change the state: the enabling
\* condition of <<Call_trieiter_next(id)>>_vars, computed as the call computes
\* its effect
CanAdvance(id) ==
    /\ ~freed
    /\ iters[id] # NoIter
    /\ LET it == iters[id]
           r == trieiter_next(trie, id, it)
       IN \/ r.trie # trie
          \/ r.result # NullResult
          \/ r.it.errcode # it.errcode
          \/ (r.it.errcode = E_SUCCESS /\ it.phase # "exhausted")
          \/ last # [NoCall EXCEPT !.op = "next", !.id = id,
                                   !.ret = r.result,
                                   !.latched = it.errcode # E_SUCCESS,
                                   !.active = id = trie.dirty_iter,
                                   !.dirty = it.is_dirty]

\* weak fairness of the caller's trieiter_next calls, written out: either the
\* call is infinitely often unable to change the state, or it is made
\* infinitely often
FairNext(id) ==
    \/ []<>(~CanAdvance(id))
    \/ []<><<Call_trieiter_next(id)>>_vars

SpecTerm == Init /\ [][NextTerm]_vars /\ FairNext(1)

(***************************************************************************)
(* What the history says, independently of the trie's representation       *)
(***************************************************************************)
StoredKeys == {k \in Keys : kv[k] # Absent}

NonEmptyPrefixes(S) == UNION {{SubSeq(k, 1, n) : n \in 1..Len(k)} : k \in S}

\* the nodes reachable from the root over child and sibling links
RECURSIVE ReachableFrom(_, _)
ReachableFrom(nodes, node) ==
    IF node = NULL THEN {}
    ELSE {node} \cup ReachableFrom(nodes, nodes[node].child)
                \cup ReachableFrom(nodes, nodes[node].sibling)

Hamming(a, b) == Cardinality({i \in 1..Len(a) : a[i] # b[i]})

IsPrefix(p, k) == Len(p) <= Len(k) /\ SubSeq(k, 1, Len(p)) = p

(***************************************************************************)
(* C1: after any sequence of trie_set_item / trie_del_item, trie_num_items *)
(* is the number of distinct keys inserted and not deleted since, and      *)
(* trie_num_nodes is the number of distinct non-empty prefixes of those    *)
(* keys, which is the number of non-root nodes reachable from the root.    *)
(***************************************************************************)
C1_Counts ==
    ~freed =>
        /\ trie_num_items(trie) = Cardinality(StoredKeys)
        /\ trie_num_nodes(trie) = Cardinality(NonEmptyPrefixes(StoredKeys))
        /\ trie_num_nodes(trie) =
               Cardinality(ReachableFrom(trie.nodes, ROOT) \ {ROOT})

\* a key was deleted while a key sharing its first node stays
C1_Witness ==
    /\ ~freed
    /\ trie.state_id > Cardinality(handed)
    /\ trie_num_items(trie) = 1
    /\ trie_num_nodes(trie) = 2

(***************************************************************************)
(* C2: trie_get_item(k) returns the item holding the value of the most     *)
(* recent trie_set_item(k, v) not followed by a trie_del_item(k), and NULL *)
(* when there is none.                                                     *)
(***************************************************************************)
C2_GetItem ==
    ~freed =>
        \A k \in Keys :
            LET item == trie_get_item(trie, k)
            IN IF kv[k] = Absent THEN item = NULL
               ELSE /\ item # NULL
                    /\ trie.nodes[item].value = kv[k]
                    /\ trie.nodes[item].key = k

\* set(k, v1); set(k, v2): one item, never deleted, holding the second value
C2_Witness ==
    /\ ~freed
    /\ trie.state_id = 1
    /\ Cardinality(handed) = 2
    /\ \E k \in Keys : kv[k] = 2 /\ trie_get_item(trie, k) # NULL

(***************************************************************************)
(* C8: no value is passed to a deallocator more than once, and a value     *)
(* removed by trie_del_item with no deallocator is never passed to one by  *)
(* a later del or by trie_free.                                            *)
(***************************************************************************)
C8_DeallocOnce ==
    \A v \in Values :
        /\ deallocs[v] <= 1
        /\ v \in returned => deallocs[v] = 0

(***************************************************************************)
(* Reading the results of an iterator                                      *)
(***************************************************************************)
\* the last call was a trieiter_next on iterator id that returned NULL with
\* status SUCCESS: the iterator is exhausted
Exhausted(id) ==
    /\ last.op = "next"
    /\ last.id = id
    /\ last.ret = NullResult
    /\ trieiter_errcode(iters[id]) = E_SUCCESS

KeyOf(node) == trie.nodes[node].key

\* the (target key, hd) pairs of a sequence of results
TargetsOf(out) == {<<KeyOf(out[j].target), out[j].hd>> : j \in 1..Len(out)}

\* the unordered key pairs of a sequence of results
PairsOf(out) ==
    {{KeyOf(out[j].query), KeyOf(out[j].target)} : j \in 1..Len(out)}

NeighborSet(q, h) ==
    {<<t, Hamming(q, t)>> :
        t \in {u \in StoredKeys :
                  Len(u) = Len(q) /\ Hamming(q, u) > 0 /\ Hamming(q, u) <= h}}

HammingPairSet(l, h) ==
    {{a, b} : <<a, b>> \in
        {p \in StoredKeys \X StoredKeys :
            /\ Len(p[1]) = l /\ Len(p[2]) = l
            /\ Hamming(p[1], p[2]) > 0 /\ Hamming(p[1], p[2]) <= h}}

SuffixSet(p) == {k \in StoredKeys : IsPrefix(p, k)}

(***************************************************************************)
(* C3: exhausting trieiter_neighbors(q, h), h >= 1, with no intervening    *)
(* mutation yields exactly the (t, hamming(q,t)) with t stored, |t| = |q|  *)
(* and 0 < hamming(q,t) <= h, each once, every result carrying q as its    *)
(* query and never q as its target.                                        *)
(***************************************************************************)
C3_Neighbors ==
    \A id \in IterIds :
        (iters[id] # NoIter /\ iters[id].kind = "neighbors"
                            /\ iters[id].mut = "none") =>
            LET it == iters[id]
                want == NeighborSet(it.qkey, it.maxhd)
            IN /\ TargetsOf(it.out) \subseteq want
               /\ Cardinality(TargetsOf(it.out)) = Len(it.out)
               /\ \A j \in 1..Len(it.out) :
                      /\ KeyOf(it.out[j].query) = it.qkey
                      /\ it.out[j].target # it.out[j].query
               /\ Exhausted(id) => TargetsOf(it.out) = want

\* exhausted after reporting neighbours at distance 1 and at distance 2
C3_Witness ==
    \E id \in IterIds :
        /\ iters[id] # NoIter /\ iters[id].kind = "neighbors"
        /\ Exhausted(id)
        /\ {iters[id].out[j].hd : j \in 1..Len(iters[id].out)} = {1, 2}
        /\ Cardinality(StoredKeys) = 4

(***************************************************************************)
(* C4: exhausting trieiter_hammingpairs(L, h), L >= 1, h >= 1, with no     *)
(* intervening mutation or replacement yields each unordered pair of       *)
(* distinct stored keys of length L at Hamming distance at most h exactly  *)
(* once, with hd their distance, and nothing else.                         *)
(***************************************************************************)
C4_HammingPairs ==
    \A id \in IterIds :
        (iters[id] # NoIter /\ iters[id].kind = "hammingpairs"
                            /\ iters[id].maxhd >= 1
                            /\ iters[id].mut = "none") =>
            LET it == iters[id]
                want == HammingPairSet(it.target_depth, it.maxhd)
            IN /\ PairsOf(it.out) \subseteq want
               /\ Cardinality(PairsOf(it.out)) = Len(it.out)
               /\ \A j \in 1..Len(it.out) :
                      /\ it.out[j].query # it.out[j].target
                      /\ it.out[j].hd = Hamming(KeyOf(it.out[j].query),
                                                KeyOf(it.out[j].target))
               /\ Exhausted(id) => PairsOf(it.out) = want

\* exhausted on the four keys of length 2 with bound 1: four pairs out of six
C4_Witness ==
    \E id \in IterIds :
        /\ iters[id] # NoIter /\ iters[id].kind = "hammingpairs"
        /\ Exhausted(id)
        /\ iters[id].maxhd = 1 /\ iters[id].target_depth = 2
        /\ Len(iters[id].out) = 4

(***************************************************************************)
(* C5: exhausting trieiter_suffixes(p), for p naming a node, with no       *)
(* intervening mutation yields exactly the stored keys that have p as a    *)
(* prefix, each once, with hd = 0 and len_query = |p|; for p = "" that is  *)
(* every stored key.                                                       *)
(***************************************************************************)
C5_Suffixes ==
    \A id \in IterIds :
        (iters[id] # NoIter /\ iters[id].kind = "suffixes"
                            /\ iters[id].mut = "none") =>
            LET it == iters[id]
                want == SuffixSet(it.qkey)
                got == {KeyOf(it.out[j].target) : j \in 1..Len(it.out)}
            IN /\ got \subseteq want
               /\ Cardinality(got) = Len(it.out)
               /\ \A j \in 1..Len(it.out) :
                      /\ it.out[j].hd = 0
                      /\ it.out[j].query = trie_get_node(trie, it.qkey)
               /\ trieiter_len_query(it) = Len(it.qkey)
               /\ Exhausted(id) => got = want

\* exhausted under a one-letter prefix that is itself stored, with two longer
\* keys under it and a key outside it
C5_Witness ==
    \E id \in IterIds :
        /\ iters[id] # NoIter /\ iters[id].kind = "suffixes"
        /\ Exhausted(id)
        /\ Len(iters[id].qkey) = 1
        /\ Len(iters[id].out) = 3
        /\ Cardinality(StoredKeys) = 4

(***************************************************************************)
(* C6: a mutating call made between an iterator's creation and its next    *)
(* trieiter_next makes that call return NULL with status OUT_OF_SYNC, for  *)
(* the three iterator families alike.                                      *)
(***************************************************************************)
\* as claimed: whatever the mutating call was
C6_AnyMutation ==
    (last.op = "next" /\ iters[last.id].mut # "none") =>
        /\ last.ret = NullResult
        /\ trieiter_errcode(iters[last.id]) = E_OUT_OF_SYNC

\* as the code has it: when the call changed the set of stored keys
C6_KeySetMutation ==
    (last.op = "next" /\ iters[last.id].mut = "struct") =>
        /\ last.ret = NullResult
        /\ trieiter_errcode(iters[last.id]) = E_OUT_OF_SYNC

\* the first trieiter_next of a neighbor iterator after such a call
C6_Witness ==
    /\ last.op = "next"
    /\ ~last.latched
    /\ iters[last.id].kind = "neighbors"
    /\ iters[last.id].mut = "struct"
    /\ iters[last.id].states # <<>>

(***************************************************************************)
(* C7: a hammingpairs iterator created while another one is live makes the *)
(* older one return NULL with status REPLACED, and itself yields what it   *)
(* would yield on a store no dirty iterator ever touched, however far the  *)
(* older one had advanced; only the store's active dirty iterator returns  *)
(* results.                                                                *)
(***************************************************************************)
RECURSIVE hammingpairs_run(_, _)
hammingpairs_run(it, t) ==
    LET r == trieiter_hammingpairs_next(it, t)
    IN IF r.result = NullResult THEN <<>>
       ELSE <<r.result>> \o hammingpairs_run(r.it, r.trie)

\* what trieiter_hammingpairs(l, h) yields on the present store with no flag
\* set and no other dirty iterator
UntouchedPairs(l, h) ==
    LET t0 == [trie EXCEPT
                  !.nodes = [n \in DOMAIN @ |-> [@[n] EXCEPT !.flags = 0]],
                  !.dirty_iter = NO_ITER]
        r == trieiter_hammingpairs(t0, 1, l, h)
    IN hammingpairs_run(r.it, r.trie)

IsSeqPrefix(a, b) == Len(a) <= Len(b) /\ SubSeq(b, 1, Len(a)) = a

C7_Replacement ==
    /\ \A id \in IterIds :
          (iters[id] # NoIter /\ iters[id].is_dirty /\ trie.dirty_iter = id
                              /\ iters[id].mut = "none") =>
              LET want == UntouchedPairs(iters[id].target_depth,
                                         iters[id].maxhd)
              IN /\ IsSeqPrefix(iters[id].out, want)
                 /\ Exhausted(id) => iters[id].out = want
    /\ (last.op = "next" /\ last.dirty /\ ~last.active) =>
          /\ last.ret = NullResult
          /\ iters[last.id].mut = "none" =>
                 trieiter_errcode(iters[last.id]) = E_REPLACED

\* the second iterator is exhausted after two pairs or more; the first one had
\* reported a pair before it was replaced and has been told so
C7_Witness ==
    /\ iters[1] # NoIter /\ iters[1].is_dirty
    /\ Len(iters[1].out) >= 1
    /\ trieiter_errcode(iters[1]) = E_REPLACED
    /\ iters[2] # NoIter /\ iters[2].is_dirty /\ trie.dirty_iter = 2
    /\ Exhausted(2)
    /\ Len(iters[2].out) >= 2

(***************************************************************************)
(* C9: after trieiter_free of an iterator, every node's flags are zero.    *)
(***************************************************************************)
AllFlagsZero == \A n \in DOMAIN trie.nodes : trie.nodes[n].flags = 0

\* as claimed: whichever iterator was freed
C9_AnyTeardown == last.op = "free" => AllFlagsZero

\* as the code has it: unless another dirty iterator is the active one
C9_Teardown ==
    last.op = "free" =>
        /\ last.active => trie.dirty_iter = NO_ITER
        /\ trie.dirty_iter = NO_ITER => AllFlagsZero

\* the active dirty iterator was freed while nodes were marked
C9_Witness == last.op = "free" /\ last.active /\ last.flagged

(***************************************************************************)
(* C10: once an iterator has latched OUT_OF_SYNC or REPLACED, every later  *)
(* trieiter_next on it returns NULL, whatever happened in between.         *)
(***************************************************************************)
C10_LatchedEnd ==
    (last.op = "next" /\ last.latched) => last.ret = NullResult

\* a dirty iterator that was replaced, then overtaken by a mutation, is asked
\* again while it still holds a query to explore
C10_Witness ==
    /\ last.op = "next"
    /\ last.latched
    /\ last.dirty /\ ~last.active
    /\ trieiter_errcode(iters[last.id]) = E_OUT_OF_SYNC
    /\ iters[last.id].stack # <<>>

(***************************************************************************)
(* C11: once trieiter_errcode of an iterator is not SUCCESS, it reads the  *)
(* same value after every later call, until the iterator is freed.         *)
(***************************************************************************)
\* as claimed: the value never changes
C11_LatchedErrorKept ==
    [][\A id \in IterIds :
          (/\ iters[id] # NoIter
           /\ trieiter_errcode(iters[id]) # E_SUCCESS
           /\ iters'[id] # NoIter) =>
              trieiter_errcode(iters'[id]) = trieiter_errcode(iters[id])]_vars

\* as the code has it: the status stays an error, OUT_OF_SYNC stays, and
\* REPLACED stays until a trieiter_next of that iterator finds that state_id
\* has moved, which turns it into OUT_OF_SYNC
C11_LatchedErrorStays ==
    [][\A id \in IterIds :
          (/\ iters[id] # NoIter
           /\ trieiter_errcode(iters[id]) # E_SUCCESS
           /\ iters'[id] # NoIter) =>
              \/ trieiter_errcode(iters'[id]) = trieiter_errcode(iters[id])
              \/ /\ trieiter_errcode(iters[id]) = E_REPLACED
                 /\ trieiter_errcode(iters'[id]) = E_OUT_OF_SYNC
                 /\ last'.op = "next" /\ last'.id = id
                 /\ iters[id].trie_state_id # trie.state_id]_vars

\* a replaced iterator was asked again after a value was overwritten and still
\* reads REPLACED
C11_Witness ==
    /\ last.op = "next"
    /\ last.latched
    /\ iters[last.id].mut = "overwrite"
    /\ trieiter_errcode(iters[last.id]) = E_REPLACED

(***************************************************************************)
(* C12: a successful trie_del_item(k) leaves every other stored key        *)
(* retrievable with the value it had, whether it shares a prefix with k,   *)
(* is a prefix of k or extends k, and trie_has_key(k) is false afterwards. *)
(***************************************************************************)
C12_DelPreserves ==
    [][\A k \in Keys, d \in BOOLEAN :
          (trie_has_key(trie, k) /\ Call_trie_del_item(k, d)) =>
              /\ ~trie_has_key(trie', k)
              /\ \A k2 \in Keys \ {k} :
                    trie_has_key(trie, k2) =>
                        LET before == trie_get_item(trie, k2)
                            after == trie_get_item(trie', k2)
                        IN /\ after # NULL
                           /\ trie'.nodes[after].value =
                                  trie.nodes[before].value
                           /\ trie'.nodes[after].key = k2]_vars

\* three keys were stored and one of them deleted; "a" and "aa" remain
C12_Witness ==
    /\ ~freed
    /\ trie.state_id > Cardinality(handed)
    /\ trie_has_key(trie, <<"a">>)
    /\ trie_has_key(trie, <<"a", "a">>)
    /\ trie_num_items(trie) = 2

(***************************************************************************)
(* C13: when a sequence of set/del has deleted every key it inserted,      *)
(* trie_num_nodes is 0, trie_num_items is 0 and trie_has_node is false for *)
(* every non-empty string.                                                 *)
(***************************************************************************)
C13_Compact ==
    (~freed /\ StoredKeys = {}) =>
        /\ trie_num_nodes(trie) = 0
        /\ trie_num_items(trie) = 0
        /\ \A p \in Strings : p # <<>> => ~trie_has_node(trie, p)

\* two keys were stored, and both were deleted
C13_Witness ==
    /\ ~freed
    /\ StoredKeys = {}
    /\ Cardinality(handed) >= 2
    /\ trie.state_id >= 4

(***************************************************************************)
(* C14: in every reachable state every non-root node that holds no key has *)
(* a child; trie_del_item(k) removes, of the nodes on the path of k, those *)
(* that no other stored key passes through, and no other node.             *)
(***************************************************************************)
NoDeadBranch ==
    ~freed =>
        \A n \in ReachableFrom(trie.nodes, ROOT) \ {ROOT} :
            trie.nodes[n].key = NULL => trie.nodes[n].child # NULL

\* the nodes on the path of k that lead to no other key of the store
PrunedBy(k) ==
    {p \in NonEmptyPrefixes({k}) :
        \A k2 \in Keys \ {k} : trie_has_key(trie, k2) => ~IsPrefix(p, k2)}

C14_NoDeadBranches ==
    /\ []NoDeadBranch
    /\ [][\A k \in Keys, d \in BOOLEAN :
             (trie_has_key(trie, k) /\ Call_trie_del_item(k, d)) =>
                 /\ ReachableFrom(trie'.nodes, ROOT) =
                        ReachableFrom(trie.nodes, ROOT) \ PrunedBy(k)
                 /\ DOMAIN trie'.nodes = DOMAIN trie.nodes \ PrunedBy(k)]_vars

\* after a deletion, "ab" is the only key and its parent holds no key
C14_Witness ==
    /\ ~freed
    /\ trie.state_id > Cardinality(handed)
    /\ trie_num_items(trie) = 1
    /\ trie_has_key(trie, <<"a", "b">>)
    /\ trie_has_node(trie, <<"a">>)
    /\ ~trie_has_key(trie, <<"a">>)

(***************************************************************************)
(* C15: trie_longest_prefix(k) returns the item of the longest stored key  *)
(* that k starts with, the empty key and k itself included, and NULL when  *)
(* no stored key is a prefix of k.                                         *)
(***************************************************************************)
C15_LongestPrefix ==
    ~freed =>
        \A k \in Strings :
            LET P == {p \in StoredKeys : IsPrefix(p, k)}
                res == trie_longest_prefix(trie, k)
            IN IF P = {} THEN res = NULL
               ELSE /\ res # NULL
                    /\ trie.nodes[res].key \in P
                    /\ \A p \in P : Len(p) <= Len(trie.nodes[res].key)
                    /\ trie.nodes[res].value = kv[trie.nodes[res].key]

\* "" and "a" are stored and "ab" is not: the longest prefix of "aba" is "a",
\* and the longest prefix of "b" is the empty key
C15_Witness ==
    /\ ~freed
    /\ kv[<<>>] # Absent
    /\ kv[<<"a">>] # Absent
    /\ kv[<<"a", "b">>] = Absent
    /\ trie_longest_prefix(trie, <<"a", "b", "a">>) = <<"a">>
    /\ trie_longest_prefix(trie, <<"b">>) = ROOT

(***************************************************************************)
(* C16: trie_has_key(p) is true iff p is a stored key, and trie_has_node(p)*)
(* is true iff p is empty or a prefix of (or equal to) a stored key; so    *)
(* has_key implies has_node, and a proper prefix of the only stored key is *)
(* a node but not a key.                                                   *)
(***************************************************************************)
C16_KeysAndNodes ==
    ~freed =>
        \A p \in Strings :
            /\ trie_has_key(trie, p) <=> p \in StoredKeys
            /\ trie_has_node(trie, p) <=>
                   (p = <<>> \/ \E k \in StoredKeys : IsPrefix(p, k))
            /\ trie_has_key(trie, p) => trie_has_node(trie, p)
            /\ (/\ StoredKeys # {p}
                /\ \E k \in Keys : StoredKeys = {k} /\ IsPrefix(p, k))
                   => (trie_has_node(trie, p) /\ ~trie_has_key(trie, p))

\* "ab" is the only stored key: "a" is a node and not a key
C16_Witness ==
    /\ ~freed
    /\ StoredKeys = {<<"a", "b">>}
    /\ trie_has_node(trie, <<"a">>)
    /\ ~trie_has_key(trie, <<"a">>)
    /\ ~trie_has_node(trie, <<"a", "b", "a">>)

(***************************************************************************)
(* C17: trie_set_item(k, v2, dealloc) with a deallocator on a key holding  *)
(* v1 passes v1 to the deallocator exactly once and changes nothing but    *)
(* the value of k: num_items, num_nodes, state_id, memsize and the node    *)
(* structure stay as they were.                                            *)
(***************************************************************************)
C17_Overwrite ==
    [][\A k \in Keys, v2 \in Values :
          (trie_has_key(trie, k) /\ Call_trie_set_item(k, v2, TRUE)) =>
              LET node == trie_get_item(trie, k)
                  v1 == trie.nodes[node].value
              IN /\ trie_set_item(trie, k, v2, TRUE).dl = <<v1>>
                 /\ deallocs' = [deallocs EXCEPT ![v1] = Min(@ + 1, 2)]
                 /\ trie_num_items(trie') = trie_num_items(trie)
                 /\ trie_num_nodes(trie') = trie_num_nodes(trie)
                 /\ trie_mem_usage(trie') = trie_mem_usage(trie)
                 /\ trie'.state_id = trie.state_id
                 /\ trie'.nodes = [trie.nodes EXCEPT ![node].value = v2]
                 /\ trie' = [trie EXCEPT !.nodes[node].value = v2]]_vars

\* set(k, 1, d); set(k, 2, dealloc): the first value went to the deallocator
C17_Witness ==
    /\ ~freed
    /\ trie.state_id = 1
    /\ Cardinality(handed) = 2
    /\ deallocs[1] = 1
    /\ \E k \in Keys : kv[k] = 2 /\ trie_has_key(trie, k)

(***************************************************************************)
(* C18: trie_del_item on a string that is not a key of the store, whether  *)
(* no node or only a node without key lies on its path, returns non-zero   *)
(* and changes nothing: nodes, keys, values, flags, num_items, num_nodes,  *)
(* memsize, state_id and dirty_iter are as before, and no deallocator is   *)
(* called.                                                                 *)
(***************************************************************************)
C18_FailedDel ==
    ~freed =>
        \A k \in Strings, d \in BOOLEAN :
            k \notin StoredKeys =>
                LET r == trie_del_item(trie, k, d)
                IN /\ r.ret # 0
                   /\ r.dl = <<>>
                   /\ r.trie.nodes = trie.nodes
                   /\ trie_num_items(r.trie) = trie_num_items(trie)
                   /\ trie_num_nodes(r.trie) = trie_num_nodes(trie)
                   /\ trie_mem_usage(r.trie) = trie_mem_usage(trie)
                   /\ r.trie.state_id = trie.state_id
                   /\ r.trie.dirty_iter = trie.dirty_iter
                   /\ r.trie = trie

\* "a" is a node without key, a dirty iterator is active and has marked nodes,
\* and trie_del_item of "a" and of "b" fail
C18_Witness ==
    /\ ~freed
    /\ trie_has_node(trie, <<"a">>)
    /\ <<"a">> \notin StoredKeys
    /\ trie.dirty_iter # NO_ITER
    /\ ~AllFlagsZero
    /\ trie_del_item(trie, <<"a">>, TRUE).ret # 0
    /\ trie_del_item(trie, <<"b">>, TRUE).ret # 0

(***************************************************************************)
(* C19: trie_free with a deallocator calls it exactly once on the value of *)
(* every item in the store and releases every node; trie_free with no      *)
(* deallocator calls nothing on any value.                                 *)
(***************************************************************************)
CountIn(dl, v) == Cardinality({i \in 1..Len(dl) : dl[i] = v})

C19_TeardownDealloc ==
    ~freed =>
        LET with == trie_free(trie, TRUE)
            without == trie_free(trie, FALSE)
        IN /\ \A k \in StoredKeys : CountIn(with.dl, kv[k]) = 1
           /\ DOMAIN with.nodes = {}
           /\ without.dl = <<>>
           /\ DOMAIN without.nodes = {}

(***************************************************************************)
(* C20: in every reachable state every node, the root included, has a      *)
(* value iff it has a key; after trie_del_item, with or without a          *)
(* deallocator, the node that held the key holds neither.                  *)
(***************************************************************************)
C20_ValueIffKey ==
    ~freed =>
        \A n \in DOMAIN trie.nodes :
            trie.nodes[n].value = NoValue <=> trie.nodes[n].key = NULL

(***************************************************************************)
(* C21: whenever the store's dirty_iter slot is empty, the flags of every  *)
(* node, the root included, are zero, whatever set, del and iterator calls *)
(* were made.                                                              *)
(***************************************************************************)
C21_CleanWhenIdle ==
    (~freed /\ trie.dirty_iter = NO_ITER) => AllFlagsZero

\* the active dirty iterator had marked nodes and was freed while an older,
\* replaced dirty iterator is still live, after the store was mutated
C21_Witness ==
    /\ last.op = "free" /\ last.active /\ last.flagged
    /\ trie.dirty_iter = NO_ITER
    /\ \E id \in IterIds : iters[id] # NoIter /\ iters[id].is_dirty
    /\ trie.state_id >= 3

(***************************************************************************)
(* C22: whenever trieiter_next returns a result, no call has changed the   *)
(* set of stored keys, and so the set of nodes, since the iterator was     *)
(* created, and the query and the target of the result are nodes of the    *)
(* store, the target holding a stored key.                                 *)
(***************************************************************************)
C22_NoStaleResult ==
    (last.op = "next" /\ last.ret # NullResult) =>
        LET now == ReachableFrom(trie.nodes, ROOT)
        IN /\ iters[last.id].mut # "struct"
           /\ iters[last.id].trie_state_id = trie.state_id
           /\ now \ {ROOT} = NonEmptyPrefixes(StoredKeys)
           /\ last.ret.query \in now
           /\ last.ret.target \in now
           /\ trie.nodes[last.ret.target].key \in StoredKeys

\* a second result is returned by an iterator created before the value of a
\* stored key was overwritten
C22_Witness ==
    /\ last.op = "next"
    /\ last.ret # NullResult
    /\ iters[last.id].mut = "overwrite"
    /\ Len(iters[last.id].out) >= 2

(***************************************************************************)
(* C23: state_id never decreases, grows on every set or del that adds or   *)
(* removes a node, and is left alone by a set that overwrites the value of *)
(* a stored key.                                                           *)
(***************************************************************************)
C23_StateId ==
    [][~freed' =>
          /\ trie'.state_id >= trie.state_id
          /\ DOMAIN trie'.nodes # DOMAIN trie.nodes =>
                 trie'.state_id > trie.state_id
          /\ \A k \in Keys, v \in Values, d \in BOOLEAN :
                (trie_has_key(trie, k) /\ Call_trie_set_item(k, v, d)) =>
                    trie'.state_id = trie.state_id]_vars

\* a key was stored, overwritten and deleted, with its node: two bumps
C23_Witness ==
    /\ ~freed
    /\ trie.state_id = 2
    /\ Cardinality(handed) = 2
    /\ StoredKeys = {}
    /\ trie_num_nodes(trie) = 0

(***************************************************************************)
(* C24: a trieiter_next that records OUT_OF_SYNC or REPLACED changes       *)
(* nothing in the store (nodes, keys, values, flags, counters, state_id,   *)
(* dirty_iter) and nothing in any other iterator, so what the others       *)
(* return afterwards is what they would have returned.                     *)
(***************************************************************************)
C24_ErrorStaysLocal ==
    [][\A id \in IterIds :
          (/\ Call_trieiter_next(id)
           /\ trieiter_errcode(iters'[id]) # E_SUCCESS) =>
              /\ trie' = trie
              /\ \A other \in IterIds \ {id} :
                    /\ iters'[other] = iters[other]
                    /\ iters[other] # NoIter =>
                           trieiter_next(trie', other, iters'[other]) =
                               trieiter_next(trie, other, iters[other])
              /\ kv' = kv /\ deallocs' = deallocs]_vars

\* the older dirty iterator has just been told that it was replaced, while
\* the active one is half way and nodes are marked
C24_Witness ==
    /\ last.op = "next"
    /\ ~last.latched
    /\ trieiter_errcode(iters[last.id]) = E_REPLACED
    /\ trie.dirty_iter # NO_ITER
    /\ Len(iters[trie.dirty_iter].out) >= 1
    /\ ~AllFlagsZero

(***************************************************************************)
(* C25: trieiter_neighbors returns NULL, creates no iterator and leaves    *)
(* the store as it is when the query is not a key of the store, whether no *)
(* node or only a node without key lies on its path, or when maxhd < 1.    *)
(***************************************************************************)
C25_NeighborsRefused ==
    ~freed =>
        \A k \in Strings, h \in -1..MaxHd, id \in IterIds :
            (k \notin StoredKeys \/ h < 1) =>
                LET r == trieiter_neighbors(trie, id, k, h)
                IN r.it = NoIter /\ r.trie = trie

\* "a" is a node without key and "aa" a key: trieiter_neighbors refuses "a"
\* and "b" with maxhd 1 and "aa" with maxhd 0, and accepts "aa" with maxhd 1
C25_Witness ==
    /\ ~freed
    /\ trie_has_node(trie, <<"a">>)
    /\ <<"a">> \notin StoredKeys
    /\ <<"a", "a">> \in StoredKeys
    /\ trieiter_neighbors(trie, 1, <<"a">>, 1).it = NoIter
    /\ trieiter_neighbors(trie, 1, <<"b">>, 1).it = NoIter
    /\ trieiter_neighbors(trie, 1, <<"a", "a">>, 0).it = NoIter
    /\ trieiter_neighbors(trie, 1, <<"a", "a">>, 1).it # NoIter

(***************************************************************************)
(* C26: in every reachable state, for every node holding a key, the ch of  *)
(* the nodes on the path from the root to the node, the root's left out,   *)
(* spell its key, and its keylen is its depth.                             *)
(***************************************************************************)
\* the ch fields met when climbing the parent links, in root-to-node order
RECURSIVE PathChars(_, _)
PathChars(nodes, node) ==
    IF nodes[node].parent = NULL THEN <<>>
    ELSE Append(PathChars(nodes, nodes[node].parent), nodes[node].ch)

C26_KeySpelledByPath ==
    ~freed =>
        \A n \in ReachableFrom(trie.nodes, ROOT) :
            trie.nodes[n].key # NULL =>
                /\ PathChars(trie.nodes, n) = trie.nodes[n].key
                /\ trie.nodes[n].keylen = Len(PathChars(trie.nodes, n))

\* the keys "b" and "ab" are stored after a third key was deleted
C26_Witness ==
    /\ ~freed
    /\ trie.state_id > Cardinality(handed)
    /\ StoredKeys = {<<"b">>, <<"a", "b">>}
    /\ trie.nodes[trie_get_item(trie, <<"a", "b">>)].keylen = 2

(***************************************************************************)
(* C27: the status of a dirty iterator moves only along fresh -> active -> *)
(* {exhausted, out-of-sync, replaced} -> closed: it leaves fresh on its    *)
(* first trieiter_next, and once it is exhausted, out-of-sync or replaced  *)
(* only trieiter_free changes it.                                          *)
(***************************************************************************)
\* the status a caller can tell from trieiter_errcode and from what
\* trieiter_next has returned so far
Status(it) ==
    IF trieiter_errcode(it) = E_OUT_OF_SYNC THEN "out-of-sync"
    ELSE IF trieiter_errcode(it) = E_REPLACED THEN "replaced"
    ELSE it.phase

\* the live dirty iterator id stays live in the step
DirtyStep(id) ==
    iters[id] # NoIter /\ iters[id].is_dirty /\ iters'[id] # NoIter

\* the step is a trieiter_next of iterator id
NextOf(id) == last'.op = "next" /\ last'.id = id

\* as claimed: the three end statuses are final
C27_StatusFinal ==
    [][\A id \in IterIds :
          DirtyStep(id) =>
              LET a == Status(iters[id])
                  b == Status(iters'[id])
              IN /\ b = "fresh" => a = "fresh"
                 /\ a \in {"exhausted", "out-of-sync", "replaced"} => b = a
                 /\ NextOf(id) => b # "fresh"]_vars

\* as the code has it: an exhausted iterator may still be found out of sync
\* or replaced, and a replaced one out of sync; nothing leads back, and only
\* a trieiter_next of the iterator moves its status
C27_StatusMoves ==
    [][\A id \in IterIds :
          DirtyStep(id) =>
              LET a == Status(iters[id])
                  b == Status(iters'[id])
              IN /\ b = "fresh" => a = "fresh"
                 /\ b = "active" => a \in {"fresh", "active"}
                 /\ b = "exhausted" => a \in {"fresh", "active", "exhausted"}
                 /\ a = "out-of-sync" => b = a
                 /\ a = "replaced" => b \in {"replaced", "out-of-sync"}
                 /\ a # b => NextOf(id)
                 /\ NextOf(id) => b # "fresh"]_vars

\* an iterator that had reported the end of its pairs was replaced and told so
C27_Witness ==
    \E id \in IterIds :
        /\ iters[id] # NoIter /\ iters[id].is_dirty
        /\ iters[id].phase = "exhausted"
        /\ Len(iters[id].out) >= 1
        /\ Status(iters[id]) = "replaced"

(***************************************************************************)
(* C28: trieiter_next reports OUT_OF_SYNC iff, since the iterator was      *)
(* created, a trie_set_item stored a key that was not stored or a          *)
(* trie_del_item succeeded; after overwriting sets and failed dels only,   *)
(* the iterator keeps yielding results, and a result shows the value the   *)
(* key holds now.                                                          *)
(***************************************************************************)
C28_OutOfSyncIff ==
    last.op = "next" =>
        LET it == iters[last.id]
        IN /\ trieiter_errcode(it) = E_OUT_OF_SYNC <=> it.mut = "struct"
           /\ last.ret # NullResult =>
                  trie.nodes[last.ret.target].value =
                      kv[trie.nodes[last.ret.target].key]
           /\ (it.mut # "struct" /\ last.ret = NullResult) =>
                  (it.states = <<>> /\ it.stack = <<>>)

\* the only stored key was overwritten after the iterator was created, and
\* the iterator returns it with its new value
C28_Witness ==
    /\ last.op = "next"
    /\ last.ret # NullResult
    /\ iters[last.id].mut = "overwrite"
    /\ Cardinality(StoredKeys) = 1
    /\ trie.nodes[last.ret.target].value = 2

(***************************************************************************)
(* C29: trieiter_free of the active dirty iterator, wherever it stands,    *)
(* zeroes the flags of every node and empties the dirty_iter slot;         *)
(* trieiter_free of a replaced dirty iterator or of a clean iterator       *)
(* leaves slot and flags as they are, and the active dirty iterator goes   *)
(* on to yield exactly its remaining pairs.                                *)
(***************************************************************************)
\* the pairs the active dirty iterator has yet to yield
RemainingPairs(id) == hammingpairs_run(iters[id], trie)

C29_TeardownFrame ==
    /\ [][\A id \in IterIds :
             Call_trieiter_free(id) =>
                 IF id = trie.dirty_iter
                 THEN /\ \A n \in DOMAIN trie'.nodes : trie'.nodes[n].flags = 0
                      /\ trie'.dirty_iter = NO_ITER
                      /\ trie' = [trie EXCEPT
                                    !.nodes = [n \in DOMAIN @ |->
                                                  [@[n] EXCEPT !.flags = 0]],
                                    !.dirty_iter = NO_ITER]
                 ELSE /\ trie' = trie
                      /\ \A other \in IterIds \ {id} :
                            iters'[other] = iters[other]]_vars
    /\ [](\A id \in IterIds :
             (/\ ~freed /\ iters[id] # NoIter /\ iters[id].is_dirty
              /\ trie.dirty_iter = id /\ iters[id].mut = "none") =>
                 iters[id].out \o RemainingPairs(id) =
                     UntouchedPairs(iters[id].target_depth, iters[id].maxhd))

\* a replaced dirty iterator was freed while the active one, which has
\* yielded a pair and marked nodes, still has pairs to yield
C29_Witness ==
    /\ last.op = "free" /\ last.dirty /\ ~last.active
    /\ trie.dirty_iter # NO_ITER
    /\ ~AllFlagsZero
    /\ Len(iters[trie.dirty_iter].out) >= 1
    /\ RemainingPairs(trie.dirty_iter) # <<>>

(***************************************************************************)
(* C30: the out-of-sync test comes before the replaced test: the           *)
(* trieiter_next of a dirty iterator that was replaced by a newer dirty    *)
(* iterator and whose store has moved to another state_id returns NULL     *)
(* with status OUT_OF_SYNC, not REPLACED.                                  *)
(***************************************************************************)
C30_OutOfSyncFirst ==
    (/\ last.op = "next" /\ last.dirty /\ ~last.active
     /\ iters[last.id].trie_state_id # trie.state_id) =>
        /\ last.ret = NullResult
        /\ trieiter_errcode(iters[last.id]) = E_OUT_OF_SYNC

\* the first trieiter_next of a dirty iterator after a newer one took the
\* slot and a key was stored, the newer one still being live
C30_Witness ==
    /\ last.op = "next" /\ last.dirty /\ ~last.active /\ ~last.latched
    /\ iters[last.id].mut = "struct"
    /\ trie.dirty_iter # NO_ITER
    /\ iters[trie.dirty_iter] # NoIter
    /\ trieiter_errcode(iters[last.id]) = E_OUT_OF_SYNC

(***************************************************************************)
(* C31: while a hammingpairs iteration is under way, a node is flagged     *)
(* EXPLORED only if every node holding a key at depth keylen in its        *)
(* subtree, itself included, has been popped from the target stack as a    *)
(* query; so a skipped child hides no target whose pair with the current   *)
(* query is still to be reported.                                          *)
(***************************************************************************)
\* the nodes at depth l in the subtree of node that hold a key
ItemsBelow(node, l) ==
    {m \in {node} \cup ReachableFrom(trie.nodes, trie.nodes[node].child) :
        /\ trie.nodes[m].key # NULL
        /\ Len(PathChars(trie.nodes, m)) = l}

\* the elements of a sequence
Range(seq) == {seq[j] : j \in 1..Len(seq)}

C31_ExploredMeansPopped ==
    \A id \in IterIds :
        (/\ iters[id] # NoIter /\ iters[id].is_dirty
         /\ trie.dirty_iter = id /\ iters[id].mut # "struct") =>
            LET it == iters[id]
            IN \A n \in ReachableFrom(trie.nodes, ROOT) :
                  HasFlag(trie.nodes[n].flags, TRIE_EXPLORED) =>
                      \A m \in ItemsBelow(n, it.target_depth) :
                          /\ m \notin Range(it.stack)
                          /\ \A j \in 1..Len(it.states) :
                                LET q == it.states[j].query
                                IN (m # q /\ Hamming(KeyOf(m), KeyOf(q))
                                                <= it.maxhd) =>
                                      {KeyOf(m), KeyOf(q)} \in PairsOf(it.out)

\* an inner node is flagged while the iterator still has a query on the
\* target stack and a state to expand
C31_Witness ==
    \E id \in IterIds :
        /\ iters[id] # NoIter /\ iters[id].is_dirty /\ trie.dirty_iter = id
        /\ iters[id].target_depth = 2
        /\ iters[id].stack # <<>>
        /\ iters[id].states # <<>>
        /\ \E n \in DOMAIN trie.nodes :
              Len(n) = 1 /\ HasFlag(trie.nodes[n].flags, TRIE_EXPLORED)

(***************************************************************************)
(* C32: a factory call that fails changes nothing: trieiter_hammingpairs   *)
(* with keylen <= 0 or maxhd < 0, and trieiter_suffixes on a string that   *)
(* names no node, return NULL, leave the dirty_iter slot and the flags as  *)
(* they are, and a live dirty iterator does not report REPLACED for it.    *)
(***************************************************************************)
\* the factory result r is a refusal that left the store as it was: the slot
\* is what trieiter_next compares a dirty iterator with
Refused(r) ==
    /\ r.it = NoIter
    /\ r.trie.dirty_iter = trie.dirty_iter
    /\ r.trie.nodes = trie.nodes
    /\ r.trie = trie

C32_FailedFactory ==
    ~freed =>
        \A id \in IterIds :
            /\ \A l \in -1..MaxStrLen, h \in -1..MaxHd :
                  (l <= 0 \/ h < 0) =>
                      Refused(trieiter_hammingpairs(trie, id, l, h))
            /\ \A k \in Strings :
                  ~trie_has_node(trie, k) =>
                      Refused(trieiter_suffixes(trie, id, k))

\* a dirty iterator is active and has marked nodes, "b" names no node, and
\* the factories refuse
C32_Witness ==
    /\ ~freed
    /\ trie.dirty_iter = 1
    /\ ~AllFlagsZero
    /\ Len(iters[1].out) >= 1
    /\ ~trie_has_node(trie, <<"b">>)
    /\ trieiter_suffixes(trie, 2, <<"b">>).it = NoIter
    /\ trieiter_hammingpairs(trie, 2, 2, -1).it = NoIter
    /\ trieiter_hammingpairs(trie, 2, 0, 1).it = NoIter

(***************************************************************************)
(* C33: trieiter_hammingpairs with maxhd = 0 and keylen >= 1 returns an    *)
(* iterator and makes it the store's dirty iterator, where                 *)
(* trieiter_neighbors with maxhd = 0 returns none; and such an iterator    *)
(* yields no result on any store.                                          *)
(***************************************************************************)
C33_ZeroDistancePairs ==
    /\ ~freed =>
          \A id \in IterIds :
              /\ \A l \in 1..MaxStrLen :
                    LET r == trieiter_hammingpairs(trie, id, l, 0)
                    IN /\ r.it # NoIter
                       /\ r.it.maxhd = 0
                       /\ r.trie.dirty_iter = id
                       /\ hammingpairs_run(r.it, r.trie) = <<>>
              /\ \A k \in Strings :
                    trieiter_neighbors(trie, id, k, 0).it = NoIter
    /\ \A id \in IterIds :
          (/\ iters[id] # NoIter
           /\ iters[id].kind = "hammingpairs"
           /\ iters[id].maxhd = 0) =>
              /\ iters[id].out = <<>>
              /\ (last.op = "next" /\ last.id = id) => last.ret = NullResult

\* a maxhd = 0 all-pairs iterator over two stored keys at distance 1 holds
\* the dirty slot and has reached its end with status SUCCESS
C33_Witness ==
    /\ iters[1] # NoIter
    /\ iters[1].kind = "hammingpairs"
    /\ iters[1].maxhd = 0
    /\ iters[1].target_depth = 2
    /\ {<<"a", "a">>, <<"a", "b">>} \subseteq StoredKeys
    /\ trie.dirty_iter = 1
    /\ Exhausted(1)
    /\ trieiter_neighbors(trie, 2, <<"a", "a">>, 0).it = NoIter

(***************************************************************************)
(* C34: the empty key is held at the root.  Setting it when absent adds    *)
(* one to num_items and state_id and nothing to num_nodes, after which     *)
(* trie_get_item("") and the suffix iterator of "" report the root;        *)
(* deleting it leaves the root allocated and linked as it was and          *)
(* num_nodes unchanged; and on a store with no item trie_get_item,         *)
(* trie_longest_prefix and the suffix iterator of "" yield nothing.        *)
(***************************************************************************)
\* what a suffix iterator yields when run to its end
RECURSIVE suffixes_run(_, _)
suffixes_run(it, t) ==
    LET r == trieiter_suffixes_next(it, t)
    IN IF r.result = NullResult THEN <<>>
       ELSE <<r.result>> \o suffixes_run(r.it, r.trie)

\* the results of trieiter_suffixes(key) on store t, run to the end
SuffixesOf(t, key) ==
    LET r == trieiter_suffixes(t, 1, key)
    IN IF r.it = NoIter THEN <<>> ELSE suffixes_run(r.it, r.trie)

EmptyKey == <<>>

C34_EmptyKey ==
    ~freed =>
        /\ (kv[EmptyKey] # Absent) <=> (trie_get_item(trie, EmptyKey) = ROOT)
        /\ trie.num_nodes = Cardinality(DOMAIN trie.nodes) - 1
        /\ kv[EmptyKey] = Absent =>
              \A v \in Values, d \in BOOLEAN :
                  LET r == trie_set_item(trie, EmptyKey, v, d)
                      out == SuffixesOf(r.trie, EmptyKey)
                  IN /\ r.ret = 0
                     /\ r.trie.num_items = trie.num_items + 1
                     /\ r.trie.state_id = trie.state_id + 1
                     /\ r.trie.num_nodes = trie.num_nodes
                     /\ DOMAIN r.trie.nodes = DOMAIN trie.nodes
                     /\ trie_get_item(r.trie, EmptyKey) = ROOT
                     /\ r.trie.nodes[ROOT].value = v
                     /\ trie_longest_prefix(r.trie, EmptyKey) = ROOT
                     /\ Len(out) >= 1
                     /\ out[1] = triesearchresult_new(ROOT, ROOT, 0)
                     /\ Len(out) = r.trie.num_items
        /\ kv[EmptyKey] # Absent =>
              /\ SuffixesOf(trie, EmptyKey)[1] =
                     triesearchresult_new(ROOT, ROOT, 0)
              /\ \A d \in BOOLEAN :
                    LET r == trie_del_item(trie, EmptyKey, d)
                    IN /\ r.ret = 0
                       /\ DOMAIN r.trie.nodes = DOMAIN trie.nodes
                       /\ r.trie.num_nodes = trie.num_nodes
                       /\ r.trie.nodes[ROOT].child = trie.nodes[ROOT].child
                       /\ r.trie.nodes[ROOT].key = NULL
                       /\ r.trie.num_items = trie.num_items - 1
                       /\ r.trie.state_id = trie.state_id + 1
                       /\ trie_get_item(r.trie, EmptyKey) = NULL
                       /\ Len(SuffixesOf(r.trie, EmptyKey)) = r.trie.num_items
        /\ trie.num_items = 0 =>
              /\ DOMAIN trie.nodes = {ROOT}
              /\ \A k \in Strings :
                    /\ trie_get_item(trie, k) = NULL
                    /\ trie_longest_prefix(trie, k) = NULL
              /\ trieiter_suffixes(trie, 1, EmptyKey).it # NoIter
              /\ SuffixesOf(trie, EmptyKey) = <<>>

\* the empty key is stored next to a longer key, after a deletion
C34_Witness ==
    /\ ~freed
    /\ kv[EmptyKey] # Absent
    /\ kv[<<"a", "b">>] # Absent
    /\ trie.num_items = 2
    /\ trie.num_nodes = 2
    /\ trie.state_id >= 3
    /\ trie_get_item(trie, EmptyKey) = ROOT
    /\ Len(SuffixesOf(trie, EmptyKey)) = 2

\* the store was filled and emptied again, the empty key included
C34_WitnessEmptied ==
    /\ ~freed
    /\ trie.num_items = 0
    /\ trie.state_id >= 4
    /\ trie.nodes[ROOT].value = NoValue

(***************************************************************************)
(* C35: creating, advancing and freeing a suffix or neighbor iterator      *)
(* leaves every node's flags and the dirty_iter slot as they were, and     *)
(* what such an iterator yields is what it would yield with no flag set    *)
(* in the store, whatever a live all-pairs iterator has marked.            *)
(***************************************************************************)
\* what a neighbor iterator yields when run to its end
RECURSIVE neighbors_run(_, _)
neighbors_run(it, t) ==
    LET r == trieiter_neighbors_next(it, t)
    IN IF r.result = NullResult THEN <<>>
       ELSE <<r.result>> \o neighbors_run(r.it, r.trie)

\* the present store with every flag cleared
Unflagged ==
    [trie EXCEPT !.nodes = [n \in DOMAIN @ |-> [@[n] EXCEPT !.flags = 0]]]

\* what a clean iterator yields from its start on store t
CleanRun(t, id, it) ==
    IF it.kind = "suffixes"
    THEN LET r == trieiter_suffixes(t, id, it.qkey)
         IN suffixes_run(r.it, r.trie)
    ELSE LET r == trieiter_neighbors(t, id, it.qkey, it.maxhd)
         IN neighbors_run(r.it, r.trie)

C35_CleanState ==
    ~freed =>
        \A id \in IterIds :
            /\ \A k \in Keys :
                  /\ trieiter_suffixes(trie, id, k).trie = trie
                  /\ \A h \in 0..MaxHd :
                        trieiter_neighbors(trie, id, k, h).trie = trie
            /\ (iters[id] # NoIter /\ ~iters[id].is_dirty) =>
                  LET it == iters[id]
                      r == trieiter_next(trie, id, it)
                      u == trieiter_next(Unflagged, id, it)
                      run == CleanRun(Unflagged, id, it)
                  IN /\ it.kind \in {"suffixes", "neighbors"}
                     /\ r.trie = trie
                     /\ r.result = u.result
                     /\ r.it = u.it
                     /\ trieiter_free(trie, id) = trie
                     /\ IsSeqPrefix(it.out, run)
                     /\ Exhausted(id) => it.out = run

C35_CleanSteps ==
    \A id \in IterIds :
        /\ (Call_trieiter_next(id) /\ ~iters[id].is_dirty) => trie' = trie
        /\ (Call_trieiter_free(id) /\ ~iters[id].is_dirty) => trie' = trie

C35_CleanIndependent == [](C35_CleanState) /\ [][C35_CleanSteps]_vars

\* a neighbor iterator, created after a live all-pairs iterator had marked
\* nodes, has yielded a target that carries the EXPLORED flag and has reached
\* its end, with the all-pairs iterator still holding the slot
C35_Witness ==
    /\ ~freed
    /\ iters[1] # NoIter /\ iters[1].is_dirty
    /\ trie.dirty_iter = 1
    /\ Len(iters[1].out) >= 1
    /\ iters[2] # NoIter /\ iters[2].kind = "neighbors"
    /\ Exhausted(2)
    /\ \E j \in 1..Len(iters[2].out) :
          HasFlag(trie.nodes[iters[2].out[j].target].flags, TRIE_EXPLORED)

(***************************************************************************)
(* C36: while the store is not mutated, repeated trieiter_next calls on an *)
(* iterator of any family eventually return NULL with status SUCCESS, for  *)
(* an all-pairs iterator with both its state stack and its target stack    *)
(* empty; and from then on every further call returns NULL with status     *)
(* SUCCESS as long as the store is not mutated and the iterator is not     *)
(* replaced.                                                               *)
(***************************************************************************)
\* iterator id is live and the store has the state_id it was created under
InSync(id) ==
    /\ ~freed
    /\ iters[id] # NoIter
    /\ iters[id].trie_state_id = trie.state_id

NotReplaced(id) == ~iters[id].is_dirty \/ trie.dirty_iter = id

C36_AtEnd ==
    \A id \in IterIds :
        (iters[id] # NoIter /\ Exhausted(id)) =>
            /\ iters[id].states = <<>>
            /\ iters[id].stack = <<>>
            /\ iters[id].phase = "exhausted"
            /\ trieiter_next(trie, id, iters[id]).result = NullResult
            /\ trieiter_next(trie, id, iters[id]).it.errcode = E_SUCCESS

C36_StaysAtEnd ==
    \A id \in IterIds :
        (/\ InSync(id)
         /\ NotReplaced(id)
         /\ iters[id].phase = "exhausted"
         /\ Call_trieiter_next(id)) =>
            /\ last'.ret = NullResult
            /\ iters'[id].errcode = E_SUCCESS
            /\ iters'[id].phase = "exhausted"
            /\ trie' = trie

\* every state-changing trieiter_next step starts where CanAdvance holds
C36_FairnessSound ==
    \A id \in IterIds :
        (Call_trieiter_next(id) /\ vars' # vars) => CanAdvance(id)

C36_Terminates ==
    /\ [](C36_AtEnd)
    /\ [][C36_StaysAtEnd /\ C36_FairnessSound]_vars
    /\ \A id \in IterIds : InSync(id) ~> (Exhausted(id) \/ ~InSync(id))

\* an all-pairs iterator has yielded a pair and reached its end; a further
\* call returns NULL with status SUCCESS again
C36_Witness ==
    /\ InSync(1)
    /\ iters[1].kind = "hammingpairs"
    /\ Len(iters[1].out) >= 1
    /\ Exhausted(1)
    /\ iters[1].states = <<>>
    /\ iters[1].stack = <<>>
    /\ trieiter_next(trie, 1, iters[1]).result = NullResult

(***************************************************************************)
(* C37: memsize is the size of the store record, plus the size of a node   *)
(* for every node other than the root, plus keylen + 1 characters for      *)
(* every stored key; so a set_item that overwrites leaves it unchanged,    *)
(* and with no key stored it is what trie_new set.                         *)
(***************************************************************************)
\* the bytes of the key buffers of a set of keys
RECURSIVE KeyBytes(_)
KeyBytes(ks) ==
    IF ks = {} THEN 0
    ELSE LET k == CHOOSE x \in ks : TRUE
         IN SizeofChar * (Len(k) + 1) + KeyBytes(ks \ {k})

C37_MemsizeState ==
    ~freed =>
        /\ trie_mem_usage(trie) =
               SizeofRoot + SizeofNode * (Cardinality(DOMAIN trie.nodes) - 1)
                          + KeyBytes(StoredKeys)
        /\ StoredKeys = {} => trie_mem_usage(trie) = trie_mem_usage(trie_new)
        /\ \A k \in StoredKeys, v \in Values, d \in BOOLEAN :
              trie_mem_usage(trie_set_item(trie, k, v, d).trie) =
                  trie_mem_usage(trie)

C37_MemsizeSteps ==
    \A k \in Keys, v \in Values, d \in BOOLEAN :
        (Call_trie_set_item(k, v, d) /\ kv[k] # Absent) =>
            trie_mem_usage(trie') = trie_mem_usage(trie)

C37_Memsize == [](C37_MemsizeState) /\ [][C37_MemsizeSteps]_vars

\* keys of all three lengths have been stored, one has been overwritten and
\* one deleted
C37_Witness ==
    /\ ~freed
    /\ StoredKeys = {<<>>, <<"a", "b">>}
    /\ Cardinality(DOMAIN trie.nodes) = 3
    /\ trie.state_id = 4
    /\ kv[<<"a", "b">>] = 3
    /\ trie_mem_usage(trie) = SizeofRoot + 2 * SizeofNode + 4 * SizeofChar

\* every key has been deleted again
C37_WitnessEmptied ==
    /\ ~freed
    /\ StoredKeys = {}
    /\ trie.state_id >= 4
    /\ trie_mem_usage(trie) = SizeofRoot

(***************************************************************************)
(* C38: on any store, for a length L >= 1 and a bound h >= 1, the          *)
(* unordered pairs {query, target} with their hd that                      *)
(* trieiter_hammingpairs(L, h) yields are the unordered pairs {q, t} with  *)
(* their hd that trieiter_neighbors(q, h) yields over the stored keys q    *)
(* of length L.                                                            *)
(***************************************************************************)
\* the unordered key pairs, each with its hd, of a sequence of results
PairsWithHd(out) ==
    {<<{KeyOf(out[j].query), KeyOf(out[j].target)}, out[j].hd>> :
        j \in 1..Len(out)}

\* what trieiter_hammingpairs(l, h), run to its end, yields on the store
PairsByHammingpairs(l, h) ==
    LET r == trieiter_hammingpairs(trie, 1, l, h)
    IN PairsWithHd(hammingpairs_run(r.it, r.trie))

\* what trieiter_neighbors(q, h), run to its end, yields on the store
PairsByNeighbors(q, h) ==
    LET r == trieiter_neighbors(trie, 1, q, h)
    IN IF r.it = NoIter THEN {} ELSE PairsWithHd(neighbors_run(r.it, r.trie))

KeysOfLength(l) == {k \in Strings : Len(k) = l /\ trie_has_key(trie, k)}

C38_PairsAreNeighbors ==
    ~freed =>
        \A l \in 1..MaxStrLen, h \in 1..MaxHd :
            PairsByHammingpairs(l, h) =
                UNION {PairsByNeighbors(q, h) : q \in KeysOfLength(l)}

\* four keys of length 2 are stored: six pairs, at distances 1 and 2, come
\* out of either enumeration, and with bound 1 only four
C38_Witness ==
    /\ ~freed
    /\ Cardinality(KeysOfLength(2)) = 4
    /\ Cardinality(PairsByHammingpairs(2, 2)) = 6
    /\ Cardinality(PairsByHammingpairs(2, 1)) = 4
    /\ Cardinality(PairsByNeighbors(<<"a", "b">>, 2)) = 3
    /\ <<{<<"a", "b">>, <<"b", "a">>}, 2>> \in PairsByHammingpairs(2, 2)

(***************************************************************************)
(* C39: in every pair an all-pairs iterator yields, the query has been     *)
(* popped from the target stack and the target has not, so the target was  *)
(* never a query before; and the query is the member of the pair that the  *)
(* traversal at construction collected later.                              *)
(***************************************************************************)
\* the item-bearing nodes at the given depth below node, in the order the
\* traversal at construction visits them: children in sibling-list order
RECURSIVE CollectedBelow(_, _, _)
RECURSIVE CollectedAmong(_, _, _)
CollectedBelow(nodes, node, depth) ==
    IF depth = 0
    THEN IF nodes[node].key # NULL THEN <<node>> ELSE <<>>
    ELSE CollectedAmong(nodes, nodes[node].child, depth)

CollectedAmong(nodes, child, depth) ==
    IF child = NULL THEN <<>>
    ELSE CollectedBelow(nodes, child, depth - 1)
             \o CollectedAmong(nodes, nodes[child].sibling, depth)

\* the place of x in a sequence without repetitions
PlaceIn(seq, x) == CHOOSE i \in 1..Len(seq) : seq[i] = x

Reverse(seq) == [i \in 1..Len(seq) |-> seq[Len(seq) + 1 - i]]

C39_QueryPoppedFirst ==
    \A id \in IterIds :
        (iters[id] # NoIter /\ iters[id].kind = "hammingpairs"
                            /\ iters[id].mut = "none") =>
            LET it == iters[id]
                order == CollectedBelow(trie.nodes, ROOT, it.target_depth)
            IN /\ IsSeqPrefix(Reverse(it.stack), order)
               /\ \A j \in 1..Len(it.out) :
                     /\ it.out[j].query \in Range(order)
                     /\ it.out[j].target \in Range(order)
                     /\ it.out[j].query \notin Range(it.stack)
                     /\ PlaceIn(order, it.out[j].query) >
                            PlaceIn(order, it.out[j].target)
                     /\ \A i \in 1..j : it.out[i].query # it.out[j].target
               /\ (last.op = "next" /\ last.id = id
                                    /\ last.ret # NullResult) =>
                     /\ last.ret.target \in Range(it.stack)
                     /\ last.ret.query \notin Range(it.stack)

\* an all-pairs iterator over four keys has yielded pairs of two different
\* queries, the latest with a target still on the target stack
C39_Witness ==
    /\ iters[1] # NoIter
    /\ iters[1].kind = "hammingpairs"
    /\ iters[1].target_depth = 2
    /\ Len(CollectedBelow(trie.nodes, ROOT, 2)) = 4
    /\ Len(iters[1].out) >= 3
    /\ Cardinality({iters[1].out[j].query : j \in 1..Len(iters[1].out)}) >= 2
    /\ last.op = "next" /\ last.id = 1 /\ last.ret # NullResult
    /\ last.ret.target \in Range(iters[1].stack)
    /\ Len(iters[1].stack) >= 1

(***************************************************************************)
(* C40: a suffix iterator yields the item-bearing nodes below its prefix   *)
(* in a depth-first pre-order that the child and sibling links alone       *)
(* determine: a stored key comes before every stored key that extends it,  *)
(* the keys below any one node come without a key from elsewhere between   *)
(* them, and a second suffix iterator created for the same prefix on the   *)
(* same store yields the same sequence.                                    *)
(***************************************************************************)
\* the item-bearing nodes at and below node in depth-first pre-order, the
\* children taken from the far end of the sibling list to its head
RECURSIVE PreOrderBelow(_, _)
RECURSIVE PreOrderAmong(_, _)
PreOrderBelow(nodes, node) ==
    (IF nodes[node].key # NULL THEN <<node>> ELSE <<>>)
        \o PreOrderAmong(nodes, nodes[node].child)

PreOrderAmong(nodes, child) ==
    IF child = NULL THEN <<>>
    ELSE PreOrderAmong(nodes, nodes[child].sibling)
             \o PreOrderBelow(nodes, child)

\* the target nodes of a sequence of results
TargetSeq(out) == [j \in 1..Len(out) |-> out[j].target]

\* node a is node b or an ancestor of it (a node's address is its path)
AtOrBelow(a, b) == IsPrefix(a, b)

C40_SuffixOrder ==
    \A id \in IterIds :
        (iters[id] # NoIter /\ iters[id].kind = "suffixes"
                            /\ iters[id].mut = "none") =>
            LET it == iters[id]
                seq == TargetSeq(it.out)
                start == trie_get_node(trie, it.qkey)
                again == SuffixesOf(trie, it.qkey)
            IN /\ \A i, j \in 1..Len(seq) :
                     (i # j /\ IsPrefix(KeyOf(seq[i]), KeyOf(seq[j]))) => i < j
               /\ \A n \in DOMAIN trie.nodes :
                     \A i, j, k \in 1..Len(seq) :
                        (i < k /\ k < j /\ AtOrBelow(n, seq[i])
                                        /\ AtOrBelow(n, seq[j])) =>
                            AtOrBelow(n, seq[k])
               /\ IsSeqPrefix(seq, PreOrderBelow(trie.nodes, start))
               /\ IsSeqPrefix(it.out, again)
               /\ Exhausted(id) =>
                     /\ it.out = again
                     /\ seq = PreOrderBelow(trie.nodes, start)

\* a suffix iterator of the empty prefix has reached its end on a store with
\* keys under both children of the root, one of them extended by another
C40_Witness ==
    /\ iters[1] # NoIter
    /\ iters[1].kind = "suffixes"
    /\ iters[1].qkey = <<>>
    /\ Exhausted(1)
    /\ Len(iters[1].out) = 4
    /\ {<<"a">>, <<"a", "a">>, <<"b">>} \subseteq StoredKeys
    /\ SuffixesOf(trie, <<>>) = iters[1].out

====
